---- MODULE Spec2Model ----
(***************************************************************************)
(* Verification model of the Mesh Rider Wave push-to-talk audio core       *)
(* (app/src/main/cpp/ptt): the RTP jitter buffer, the RTP packetizer, and  *)
(* the capture / playback paths of the audio engine.                       *)
(*                                                                         *)
(* Byte buffers are modelled by the parts the code reads: an RTP datagram  *)
(* is a record of its header fields as they lie on the wire (the 16-bit    *)
(* sequence number as its two bytes in network order) plus an identity     *)
(* standing for the payload bytes.                                         *)
(***************************************************************************)
EXTENDS Integers, Sequences, FiniteSets, TLC

(***************************************************************************)
(* Program constants                                                       *)
(***************************************************************************)
BUFFER_SIZE == 50

JB_MAX_PACKET_SIZE == 1500

RTP_HEADER_SIZE == 12

RTP_PAYLOAD_OPUS == 111

MAX_PACKET_SIZE == 1400

SEQ_MOD == 65536

SAMPLES_PER_FRAME == 960

OPUS_FRAME_SIZE == 960

OPUS_MAX_PACKET_SIZE == 4000
OPUS_BITRATE == 12000

kFramesPerBurst == 192
kOpusFrameSize == 320

(***************************************************************************)
(* Bounds of the exploration                                               *)
(***************************************************************************)
\* SpecGap: number of jitter-buffer operations in one run.
MaxGapOps == 3

\* SpecJb: number of datagrams of the arrival stream in one run.
MaxEnqueues == 52

\* SpecJb: resets in one run, and operations explored after a reset.
MaxResets == 1

MaxAfterReset == 3

\* SpecSeq: packets sent before the run begins, and handlers run in it.
MaxSentBefore == 65534

MaxSeqSteps == 4

\* SpecMode: handlers run in one run.
MaxModeSteps == 5

\* SpecBitrate: setBitrate calls in one run.
MaxBitrateSteps == 2

\* SpecCancel: calls made in one run, and datagrams that arrive in it.
MaxCancelSteps == 5
MaxCancelData == 2
MaxStopSteps == 4

\* SpecError: handlers run in one run.
MaxErrSteps == 5

\* SpecLocks: control-plane calls and callbacks begun in one run.
MaxLockSteps == 4

\* SpecEnqueue: native calls and receive callbacks begun in one run.
MaxEqSteps == 4

\* SpecThreads: native calls the host makes in one run.
MaxThreadSteps == 4

\* SpecPipeline: handlers and callbacks run in one run, enough for more
\* arrivals than a jitter buffer has slots.
MaxPipeSteps == 106

\* SpecRx, SpecCapture, SpecPlayback: nativeInitialize is among the first
\* MaxInitSteps handlers run; handlers run in one run.
MaxInitSteps == 1

MaxRxSteps == 4

MaxCapSteps == 8

MaxPbSteps == 5

\* SpecCapture: samples the microphone delivers in one run.
MaxSamples == 1200

VARIABLES
    jitterBuffer_,   \* an RtpJitterBuffer object (RtpPacketizer::jitterBuffer_)
    jbPrev,          \* history: the object before the last operation on it
    jbLast,          \* history: the last operation on it, its input and result
    jbPending,       \* history: accepted packets not yet returned or dropped, in arrival order
    jbArrivals,      \* history: datagrams offered to enqueue so far
    jbOps,           \* history: operations performed so far (SpecGap)
    jbResets,        \* history: resets performed so far (SpecJb)
    jbAfterReset,    \* history: operations performed since the last reset (SpecJb)
    pattern,         \* SpecJb: which arrival stream the network delivers
    g_packetizer,    \* JniBridge: TRUE when the global pointer holds an RtpPacketizer
    rtp,             \* the fields of the RtpPacketizer object
    g_audioEngine,   \* JniBridge: TRUE when the global pointer holds an AudioEngine
    eng,             \* the fields of the AudioEngine object and of its two callbacks
    pbJitterBuffer_, \* PlaybackCallback::jitterBuffer_: <<>> when null, else <<object>>
    micNext,         \* environment: number of the next sample the microphone delivers
    steps,           \* history: handlers run so far
    last,            \* history: the last handler run, its inputs and what it did
    prev,            \* history: the program state before the last handler, and the handler before it
    hdrPrev,         \* history: the RTP packet built before hdrLast
    hdrLast,         \* history: the last RTP packet sendAudio built
    hdrCount,        \* history: packets sendAudio built so far, counted up to 2
    captured,        \* history: samples accumulated since pcmBuffer_ was last cleared
    emitted          \* history: frames handed to the encoder since pcmBuffer_ was last cleared

jbVars == <<jitterBuffer_, jbPrev, jbLast, jbPending, jbArrivals, jbOps, jbResets, jbAfterReset, pattern>>

rtpVars == <<g_packetizer, rtp>>

engVars == <<g_audioEngine, eng, pbJitterBuffer_>>

histVars == <<micNext, steps, last, prev, hdrPrev, hdrLast, hdrCount, captured, emitted>>

sysVars == <<rtpVars, engVars, histVars>>

vars == <<jbVars, rtpVars, engVars, histVars>>

(***************************************************************************)
(* Wire encoding of 16-bit header fields                                   *)
(***************************************************************************)
\* htons: the two bytes of a 16-bit value, most significant first.
Htons(x) == <<(x % SEQ_MOD) \div 256, x % 256>>

\* ntohs: the 16-bit value of two bytes in network order.
Ntohs(b) == b[1] * 256 + b[2]

\* A uint32_t is kept as its two 16-bit halves <<high, low>>.
U32(hi, lo) == <<hi % SEQ_MOD, lo % SEQ_MOD>>

\* uint32_t addition of a small n, wrapping at 2^32.
U32Add(x, n) == U32(x[1] + ((x[2] + n) \div SEQ_MOD), x[2] + n)

\* htonl: the four bytes of a uint32_t, most significant first.
Htonl(x) == Htons(x[1]) \o Htons(x[2])

\* ntohl: the uint32_t of four bytes in network order.
Ntohl(b) == U32(b[1] * 256 + b[2], b[3] * 256 + b[4])

\* A byte buffer, by the parts the code reads: mpt is byte 1, seq bytes 2-3,
\* timestamp bytes 4-7, ssrc bytes 8-11 (the RtpHeader fields when the buffer
\* is an RTP datagram), pseq bytes 14-15, and body the identity of all bytes
\* from offset 12 on (the payload).
Bytes(mpt, seq, timestamp, ssrc, pseq, body) ==
    [mpt |-> mpt, seq |-> seq, timestamp |-> timestamp, ssrc |-> ssrc,
     pseq |-> pseq, body |-> body]

\* A datagram as a remote sender builds it: header sequence number seq,
\* sender ssrc, payload identity id.
Datagram(seq, ssrc, id) ==
    Bytes(RTP_PAYLOAD_OPUS, Htons(seq), Htonl(U32(0, 0)), Htonl(ssrc), Htons(id), id)

\* The buffer that starts RTP_HEADER_SIZE bytes into d (buffer + RTP_HEADER_SIZE):
\* its bytes 2-3 are d's bytes 14-15.
StripHeader(d) == Bytes(0, d.pseq, Htonl(U32(0, 0)), Htonl(U32(0, 0)), Htons(0), d.body)

\* Contents of memory no packet was copied to.
NoData == Bytes(0, Htons(0), Htonl(U32(0, 0)), Htonl(U32(0, 0)), Htons(0), 0)

(***************************************************************************)
(* RtpJitterBuffer                                                         *)
(***************************************************************************)
EmptySlot == [size |-> 0, seq |-> 0, valid |-> FALSE, data |-> NoData]

\* RtpJitterBuffer::RtpJitterBuffer
NewJitterBuffer ==
    [head_ |-> 0, tail_ |-> 0, isEmpty_ |-> TRUE,
     packetsReceived_ |-> 0, packetsLost_ |-> 0, lastSeq_ |-> 0,
     buffer_ |-> [i \in 0..(BUFFER_SIZE - 1) |-> EmptySlot]]

\* enqueue's size check: the packet is accepted.
JbAccepts(size) == ~(size < RTP_HEADER_SIZE \/ size > JB_MAX_PACKET_SIZE)

\* A mutation of JbSeqGapLoss: the gap is taken as a signed difference.
JbSeqGapLoss_Signed(jb, seq) ==
    IF jb.packetsReceived_ > 0 /\ jb.lastSeq_ # 0
    THEN LET expected == (jb.lastSeq_ + 1) % SEQ_MOD
         IN  IF seq # expected /\ seq - expected < 100 THEN seq - expected ELSE 0
    ELSE 0

\* enqueue's "Check for packet loss" block: what it adds to packetsLost_.
JbSeqGapLoss(jb, seq) ==
    IF jb.packetsReceived_ > 0 /\ jb.lastSeq_ # 0
    THEN LET expected == (jb.lastSeq_ + 1) % SEQ_MOD
         IN  IF seq # expected
             THEN LET lost == (seq - expected) % SEQ_MOD
                  IN  IF lost < 100 THEN lost ELSE 0
             ELSE 0
    ELSE 0

\* A mutation of JbIsFull: the buffer is never taken for full.
JbIsFull_Never(jb) == FALSE

\* enqueue's "Buffer full" test.
JbIsFull(jb) == (jb.tail_ + 1) % BUFFER_SIZE = jb.head_

\* enqueue's "drop oldest": the head index after an eviction.
JbHeadAfterEvict_Stuck(jb) == jb.head_

JbHeadAfterEvict(jb) == (jb.head_ + 1) % BUFFER_SIZE

\* RtpJitterBuffer::enqueue
JbEnqueue(jb, data, size) ==
    IF ~JbAccepts(size) THEN jb
    ELSE LET seq == Ntohs(data.seq)
             currentTail == jb.tail_
             next == (currentTail + 1) % BUFFER_SIZE
             full == JbIsFull(jb)
         IN  [jb EXCEPT
                !.packetsLost_ = @ + JbSeqGapLoss(jb, seq) + (IF full THEN 1 ELSE 0),
                !.lastSeq_ = seq,
                !.packetsReceived_ = @ + 1,
                !.head_ = IF full THEN JbHeadAfterEvict(jb) ELSE @,
                !.buffer_[currentTail] =
                    [size |-> size, seq |-> seq, valid |-> TRUE, data |-> data],
                !.tail_ = next,
                !.isEmpty_ = FALSE]

NoPacket(jb) == [jb |-> jb, ok |-> FALSE, size |-> 0, data |-> NoData]

\* dequeue's slot: the one at the head index.
JbDequeueSlot_Newest(jb) == (jb.tail_ + BUFFER_SIZE - 1) % BUFFER_SIZE

JbDequeueSlot(jb) == jb.head_

\* RtpJitterBuffer::dequeue: the object afterwards, the return value, and the
\* bytes and size written to the caller's buffer.
JbDequeue(jb) ==
    IF jb.isEmpty_ THEN NoPacket(jb)
    ELSE LET currentHead == JbDequeueSlot(jb)
         IN  IF currentHead = jb.tail_
             THEN NoPacket([jb EXCEPT !.isEmpty_ = TRUE])
             ELSE IF ~jb.buffer_[currentHead].valid
             THEN NoPacket(jb)
             ELSE [jb |-> [jb EXCEPT !.buffer_[currentHead].valid = FALSE,
                                     !.head_ = (currentHead + 1) % BUFFER_SIZE],
                   ok |-> TRUE,
                   size |-> jb.buffer_[currentHead].size,
                   data |-> jb.buffer_[currentHead].data]

JbReset_KeepsCounters(jb) ==
    [jb EXCEPT !.head_ = 0, !.tail_ = 0, !.isEmpty_ = TRUE, !.lastSeq_ = 0,
               !.buffer_ = [i \in 0..(BUFFER_SIZE - 1) |-> [jb.buffer_[i] EXCEPT !.valid = FALSE]]]

\* RtpJitterBuffer::reset
JbReset(jb) ==
    [jb EXCEPT !.head_ = 0, !.tail_ = 0, !.isEmpty_ = TRUE,
               !.packetsReceived_ = 0, !.packetsLost_ = 0, !.lastSeq_ = 0,
               !.buffer_ = [i \in 0..(BUFFER_SIZE - 1) |-> [jb.buffer_[i] EXCEPT !.valid = FALSE]]]

\* RtpJitterBuffer::getCurrentSize
getCurrentSize(jb) ==
    IF jb.isEmpty_ THEN 0
    ELSE IF jb.tail_ >= jb.head_ THEN jb.tail_ - jb.head_
    ELSE BUFFER_SIZE - jb.head_ + jb.tail_

\* What successive dequeue calls return until one reports no packet.
RECURSIVE Drain(_)
Drain(jb) ==
    LET r == JbDequeue(jb)
    IN  IF r.ok THEN <<[data |-> r.data, size |-> r.size]>> \o Drain(r.jb) ELSE <<>>

(***************************************************************************)
(* RtpPacketizer                                                           *)
(***************************************************************************)
TransportModes == {"MULTICAST", "UNICAST", "AUTO"}

\* The descriptor socket() returns when it succeeds.
SocketFd == 3

\* The object the constructor builds; ssrc is the random draw.  Four fields
\* describe execution rather than members: receiveAt_ is where the thread
\* running receiveLoop stands ("none" no thread, "check" at the while
\* condition, "wait" in waitForData, "recv" at recvfrom, "done" returned),
\* pipeBytes_ the bytes written to the shutdown pipe and not yet read,
\* joining_ whether a caller of stopReceiveLoop is waiting in the join, and
\* stopAt_ where a caller of stopReceiveLoop stands when the wait for the
\* join is followed step by step ("none" not in the call, "wait_for" in
\* future.wait_for, "~future" in the destructor of the future).
NewPacketizer(ssrc) ==
    [socket_ |-> 0 - 1, isRunning_ |-> FALSE,
     sequence_ |-> 0, timestamp_ |-> U32(0, 0), ssrc_ |-> ssrc,
     samplesPerFrame_ |-> SAMPLES_PER_FRAME,
     transportMode_ |-> "AUTO", multicastJoined_ |-> FALSE,
     unicastPeers_ |-> <<>>,
     receiveThread_ |-> "none", receiveRunning_ |-> FALSE,
     shutdownPipe_ |-> FALSE,
     receiveAt_ |-> "none", pipeBytes_ |-> 0, joining_ |-> FALSE, stopAt_ |-> "none",
     audioCallback_ |-> FALSE,
     packetsSent_ |-> 0, packetsReceived_ |-> 0]

\* Points at which createSocket can fail.
SocketFaults == {"none", "socket", "reuseaddr", "pipe", "bind", "join"}

\* createSocket: the object afterwards and the value returned.
CreateSocket(p, fault) ==
    IF fault \in {"socket", "reuseaddr"}
    THEN [rtp |-> [p EXCEPT !.socket_ = 0 - 1], ok |-> FALSE]
    ELSE LET p1 == [p EXCEPT !.socket_ = SocketFd, !.shutdownPipe_ = (fault # "pipe")]
         IN  IF fault = "bind"
             THEN [rtp |-> [p1 EXCEPT !.socket_ = 0 - 1], ok |-> FALSE]
             ELSE IF p1.transportMode_ \in {"MULTICAST", "AUTO"}
                  THEN LET joined == (fault # "join")
                           p2 == [p1 EXCEPT !.multicastJoined_ = joined]
                       IN  IF ~joined /\ p2.transportMode_ = "MULTICAST"
                           THEN [rtp |-> [p2 EXCEPT !.socket_ = 0 - 1], ok |-> FALSE]
                           ELSE IF ~joined /\ p2.transportMode_ = "AUTO"
                                THEN [rtp |-> [p2 EXCEPT !.transportMode_ = "UNICAST"],
                                      ok |-> TRUE]
                                ELSE [rtp |-> p2, ok |-> TRUE]
                  ELSE [rtp |-> p1, ok |-> TRUE]

\* A mutation of RtpInitialize: the mode asked for is kept when the join fails.
RtpInitialize_NoDemote(p, mode, fault) ==
    LET r == CreateSocket([p EXCEPT !.transportMode_ = mode], fault)
    IN  [rtp |-> [r.rtp EXCEPT !.transportMode_ = mode], ok |-> r.ok]

\* A mutation of RtpInitialize: a failed join is not fatal in any mode.
RtpInitialize_JoinOptional(p, mode, fault) ==
    LET r == CreateSocket([p EXCEPT !.transportMode_ = mode], fault)
    IN  IF fault = "join" THEN [rtp |-> [r.rtp EXCEPT !.socket_ = SocketFd], ok |-> TRUE] ELSE r

\* initialize(group, port, mode)
RtpInitialize(p, mode, fault) == CreateSocket([p EXCEPT !.transportMode_ = mode], fault)

\* start()
RtpStart(p) == IF p.isRunning_ THEN p ELSE [p EXCEPT !.isRunning_ = TRUE]

\* startReceiveLoop()
StartReceiveLoop(p) ==
    IF p.receiveRunning_ THEN p
    ELSE [p EXCEPT !.receiveRunning_ = TRUE, !.receiveThread_ = "joinable",
                   !.receiveAt_ = "check"]

\* stopReceiveLoop() run as one step: joined tells whether the thread ended
\* within the wait (it has then read the byte written to the pipe);
\* otherwise it is detached.
StopReceiveLoop(p, joined) ==
    [p EXCEPT !.receiveRunning_ = FALSE,
              !.receiveThread_ = IF @ = "joinable"
                                 THEN (IF joined THEN "none" ELSE "detached")
                                 ELSE @,
              !.receiveAt_ = IF p.receiveThread_ = "joinable" /\ joined THEN "none" ELSE @]

\* A mutation of SignalShutdown: the byte is written but the flag stays set.
SignalShutdown_PipeOnly(p) ==
    [p EXCEPT !.pipeBytes_ = IF p.shutdownPipe_ THEN @ + 1 ELSE @,
              !.joining_ = (p.receiveThread_ = "joinable")]

\* stopReceiveLoop() up to the join: the flag is cleared and one byte is
\* written to the pipe if it is open; the caller then waits in the join if
\* the thread is joinable.
SignalShutdown(p) ==
    [p EXCEPT !.receiveRunning_ = FALSE,
              !.pipeBytes_ = IF p.shutdownPipe_ THEN @ + 1 ELSE @,
              !.joining_ = (p.receiveThread_ = "joinable")]

\* stopReceiveLoop() from the join on, when the thread has returned.
JoinReceiveThread(p) ==
    [p EXCEPT !.receiveThread_ = "none", !.receiveAt_ = "none", !.joining_ = FALSE]

\* stopReceiveLoop() up to future.wait_for: the flag is cleared, one byte is
\* written to the pipe if it is open and, the thread being joinable, the
\* join is handed to std::async and the caller waits for the future.
LaunchJoin(p) ==
    [p EXCEPT !.receiveRunning_ = FALSE,
              !.pipeBytes_ = IF p.shutdownPipe_ THEN @ + 1 ELSE @,
              !.stopAt_ = IF p.receiveThread_ = "joinable" THEN "wait_for" ELSE "none"]

\* Whether the join running in the task of std::async has returned.
JoinTaskDone(p) == p.receiveAt_ = "done"

\* future.wait_for(500 ms) returns ready: the block is left, the destructor
\* of the future finds the task finished, and stopReceiveLoop returns.
WaitForReady(p) ==
    [p EXCEPT !.receiveThread_ = "none", !.receiveAt_ = "none", !.stopAt_ = "none"]

\* future.wait_for(500 ms) returns timeout: the thread is detached and the
\* block ends, where the destructor of the future runs.  The future comes
\* from std::async with launch::async, so its destructor waits until the
\* task, which is inside receiveThread_.join(), has finished.
WaitForTimeout(p) ==
    [p EXCEPT !.receiveThread_ = "detached", !.stopAt_ = "~future"]

\* The destructor of the future returns, and stopReceiveLoop with it.
FutureDestroyed(p) ==
    [p EXCEPT !.receiveAt_ = IF JoinTaskDone(p) THEN "none" ELSE @, !.stopAt_ = "none"]

\* The while condition of receiveLoop: where the thread goes next.
ReceiveLoopCondition(p) == IF p.receiveRunning_ THEN "wait" ELSE "done"

\* waitForData(100): select returns at once with the pipe readable when a
\* byte is in it, and one byte is read; otherwise ready tells whether the
\* socket became readable before the timeout.
WaitForData(p, ready) ==
    IF p.shutdownPipe_ /\ p.pipeBytes_ > 0
    THEN [rtp |-> [p EXCEPT !.pipeBytes_ = @ - 1], data |-> FALSE, woke |-> TRUE]
    ELSE [rtp |-> p, data |-> ready, woke |-> FALSE]

\* stop()
RtpStop(p, joined) == StopReceiveLoop([p EXCEPT !.isRunning_ = FALSE], joined)

\* closeSocket()
CloseSocket(p) ==
    [p EXCEPT !.multicastJoined_ = IF @ /\ p.socket_ >= 0 THEN FALSE ELSE @,
              !.socket_ = 0 - 1,
              !.shutdownPipe_ = FALSE,
              !.pipeBytes_ = 0]

\* ~RtpPacketizer()
RtpDestroy(p, joined) == CloseSocket(RtpStop(p, joined))

\* addUnicastPeer(ip)
AddUnicastPeer(p, ip) ==
    IF \E i \in 1..Len(p.unicastPeers_) : p.unicastPeers_[i] = ip
    THEN p
    ELSE [p EXCEPT !.unicastPeers_ = Append(@, ip)]

\* clearUnicastPeers()
ClearUnicastPeers(p) == [p EXCEPT !.unicastPeers_ = <<>>]

\* The sendto calls after the first one that returned <= 0 are dropped.
RECURSIVE UntilFailure(_)
UntilFailure(calls) ==
    IF calls = <<>> THEN <<>>
    ELSE IF ~Head(calls).ok THEN <<Head(calls)>>
    ELSE <<Head(calls)>> \o UntilFailure(Tail(calls))

\* The destination of the multicast sendto.
MulticastGroup == "239.255.0.1"

\* A mutation of SendToAllCalls: the first failed sendto ends the loop.
SendToAllCalls_Abort(p, mcOk, okPeers) ==
    UntilFailure((IF p.multicastJoined_ /\ p.transportMode_ \in {"MULTICAST", "AUTO"}
                  THEN <<[dest |-> MulticastGroup, ok |-> mcOk]>> ELSE <<>>)
                 \o [i \in 1..Len(p.unicastPeers_) |->
                       [dest |-> p.unicastPeers_[i], ok |-> p.unicastPeers_[i] \in okPeers]])

\* The sendto calls one sendToAll makes, in order, each with its destination
\* and whether it returned > 0: mcOk tells whether the multicast sendto does,
\* okPeers the peers whose sendto does.
SendToAllCalls(p, mcOk, okPeers) ==
    (IF p.multicastJoined_ /\ p.transportMode_ \in {"MULTICAST", "AUTO"}
     THEN <<[dest |-> MulticastGroup, ok |-> mcOk]>> ELSE <<>>)
    \o [i \in 1..Len(p.unicastPeers_) |->
          [dest |-> p.unicastPeers_[i], ok |-> p.unicastPeers_[i] \in okPeers]]

\* The value sendToAll returns: anySent.
SendToAll(p, mcOk, okPeers) ==
    \E i \in 1..Len(SendToAllCalls(p, mcOk, okPeers)) : SendToAllCalls(p, mcOk, okPeers)[i].ok

\* The encoded frame the codec produced, as a byte buffer: id stands for its
\* contents.
OpusPayload(id) == Bytes(0, Htons(id), Htonl(U32(0, 0)), Htonl(U32(0, 0)), Htons(0), id)

\* The mpt byte after setMarker and setPayloadType.
MarkerAndPayloadType(isMarker) == (IF isMarker THEN 128 ELSE 0) + (RTP_PAYLOAD_OPUS % 128)

\* A mutation of NextSequence: the counter skips a number.
NextSequence_Skip(s) == (s + 2) % SEQ_MOD

\* sequence_.fetch_add(1) on the 16-bit counter.
NextSequence(s) == (s + 1) % SEQ_MOD

\* sendAudio(opusData, opusSize, isMarker): the object afterwards, whether a
\* packet was built, the packet and its size, and the value returned.
SendAudio(p, opus, opusSize, isMarker, mcOk, okPeers) ==
    IF ~p.isRunning_ \/ p.socket_ < 0
    THEN [rtp |-> p, built |-> FALSE, packet |-> NoData, size |-> 0, sent |-> FALSE]
    ELSE LET copied == IF opusSize > MAX_PACKET_SIZE - RTP_HEADER_SIZE
                       THEN MAX_PACKET_SIZE - RTP_HEADER_SIZE ELSE opusSize
             packet == Bytes(MarkerAndPayloadType(isMarker),
                             Htons(p.sequence_ % SEQ_MOD),
                             Htonl(p.timestamp_), Htonl(p.ssrc_),
                             opus.seq, opus.body)
             sent == SendToAll(p, mcOk, okPeers)
         IN  [rtp |-> [p EXCEPT !.sequence_ = NextSequence(@),
                                !.timestamp_ = IF sent THEN U32Add(@, p.samplesPerFrame_) ELSE @,
                                !.packetsSent_ = IF sent THEN @ + 1 ELSE @],
              built |-> TRUE, packet |-> packet,
              size |-> RTP_HEADER_SIZE + copied, sent |-> sent]

(***************************************************************************)
(* AudioEngine, CaptureCallback and PlaybackCallback                       *)
(***************************************************************************)
NewStats == [framesEncoded |-> 0, framesDecoded |-> 0, bytesEncoded |-> 0, bytesTransmitted |-> 0]

\* The mutexes of the engine, of its playback callback (bufferMutex_ and the
\* mutex_ inside its jitter buffer) and of the packetizer (unicastMutex_).
Locks == {"codecMutex_", "pcmBufferMutex_", "statsMutex_", "bufferMutex_",
          "jitterBuffer_->mutex_", "unicastMutex_"}

\* The threads that run engine code: the host's control-plane calls (which
\* g_engineMutex makes one at a time), the capture stream's callback thread
\* and the playback stream's callback thread.
Threads == {"host", "capture", "playback", "receive"}

\* A thread that is in no function of the engine.
Idle == [fn |-> "none", pc |-> 0]

\* The locals of CaptureCallback::onAudioReady and of the sendAudio and
\* sendToAll it reaches, and those of PlaybackCallback::onAudioReady.
NoCaptureLocal ==
    [input |-> <<>>, needEncode |-> FALSE, frameBuffer |-> <<>>, encodedBytes |-> 0,
     anySent |-> FALSE]

NoPlaybackLocal == [numFrames |-> 0, got |-> FALSE, opusPacket |-> NoData, packetSize |-> 0]

\* The object the constructor builds.  A stream is "none" (null pointer),
\* "open", "started" or "closed" (closed by the device after an error).  bitrate_ is the bitrate_ of the OpusEncoder held in
\* opusEncoder_, which its constructor sets to OPUS_BITRATE.  stats_ has no initializer; nothing reads it before
\* initialize assigns it.  encoderFrames_ and decoderFrames_ stand for the
\* state inside the codec objects: the frames each has processed since it was
\* created or last reset.  locks_ gives the thread holding each mutex, the
\* ...At_ fields the function and step each thread is at, the ...Local_
\* fields the locals of a callback in progress.
NewAudioEngine ==
    [callback_ |-> FALSE, opusEncoder_ |-> FALSE, opusDecoder_ |-> FALSE,
     captureStream_ |-> "none", playbackStream_ |-> "none",
     isCapturing_ |-> FALSE, isPlaying_ |-> FALSE,
     bitrate_ |-> OPUS_BITRATE,
     encoderFrames_ |-> 0, decoderFrames_ |-> 0,
     pcmBuffer_ |-> <<>>, outputBuffer_ |-> <<>>, outputBufferPos_ |-> 0,
     stats_ |-> NewStats,
     locks_ |-> [l \in Locks |-> "none"],
     hostAt_ |-> Idle, captureAt_ |-> Idle, playbackAt_ |-> Idle, receiveAt_ |-> Idle,
     captureLocal_ |-> NoCaptureLocal, playbackLocal_ |-> NoPlaybackLocal]

\* Points at which AudioEngine::initialize can fail.
EngineFaults == {"none", "encoder", "decoder", "captureStream", "playbackStream"}

\* initialize(callback): the object afterwards and the value returned.
EngineInitialize(e, fault) ==
    LET e0 == [e EXCEPT !.callback_ = TRUE, !.bitrate_ = OPUS_BITRATE]
    IN  IF fault = "encoder" THEN [eng |-> e0, ok |-> FALSE]
        ELSE IF fault = "decoder" THEN [eng |-> [e0 EXCEPT !.opusEncoder_ = FALSE], ok |-> FALSE]
        ELSE IF fault = "captureStream"
             THEN [eng |-> [e0 EXCEPT !.opusEncoder_ = FALSE, !.opusDecoder_ = FALSE],
                   ok |-> FALSE]
        ELSE IF fault = "playbackStream"
             THEN [eng |-> [e0 EXCEPT !.captureStream_ = "none",
                                      !.opusEncoder_ = FALSE, !.opusDecoder_ = FALSE],
                   ok |-> FALSE]
        ELSE [eng |-> [e0 EXCEPT !.opusEncoder_ = TRUE, !.opusDecoder_ = TRUE,
                                 !.captureStream_ = "open", !.playbackStream_ = "open",
                                 !.stats_ = NewStats],
              ok |-> TRUE]

\* std::max and std::min on int.
Max(a, b) == IF a < b THEN b ELSE a
Min(a, b) == IF b < a THEN b ELSE a

\* OpusEncoder::setBitrate(bitrate): the value stored in bitrate_.
SetBitrate(bitrate) ==
    IF bitrate < 6000 \/ bitrate > 64000
    THEN Max(6000, Min(64000, bitrate))
    ELSE bitrate

\* pcmBuffer_.clear()
ClearedPcmBuffer(buf) == <<>>

\* startCapture(): startOk is the outcome of requestStart, which fails on a
\* closed stream.  cleared tells whether pcmBuffer_.clear() ran.
StartCapture(e, startOk) ==
    IF e.isCapturing_ THEN [eng |-> e, ok |-> TRUE, cleared |-> FALSE]
    ELSE IF e.captureStream_ = "none" THEN [eng |-> e, ok |-> FALSE, cleared |-> FALSE]
    ELSE LET e1 == [e EXCEPT !.pcmBuffer_ = ClearedPcmBuffer(@),
                             !.encoderFrames_ = IF e.opusEncoder_ THEN 0 ELSE @]
         IN  IF ~startOk \/ e.captureStream_ = "closed"
             THEN [eng |-> [e1 EXCEPT !.captureStream_ = "none"], ok |-> FALSE, cleared |-> TRUE]
             ELSE [eng |-> [e1 EXCEPT !.captureStream_ = "started", !.isCapturing_ = TRUE],
                   ok |-> TRUE, cleared |-> TRUE]

\* stopCapture()
StopCapture(e) ==
    IF ~e.isCapturing_ THEN e
    ELSE [e EXCEPT !.isCapturing_ = FALSE, !.captureStream_ = "none"]

\* A mutation of ResetJitterBuffer: the buffer is left as it is.
ResetJitterBuffer_Keep(pb) == pb

\* PlaybackCallback::resetJitterBuffer()
ResetJitterBuffer(pb) == IF pb # <<>> THEN <<JbReset(pb[1])>> ELSE pb

\* startPlayback(): startOk is the outcome of requestStart, which fails on a
\* closed stream.
StartPlayback(e, pb, startOk) ==
    IF e.isPlaying_ THEN [eng |-> e, pb |-> pb, ok |-> TRUE]
    ELSE IF e.playbackStream_ = "none" THEN [eng |-> e, pb |-> pb, ok |-> FALSE]
    ELSE LET e1 == [e EXCEPT !.decoderFrames_ = IF e.opusDecoder_ THEN 0 ELSE @]
         IN  IF ~startOk \/ e.playbackStream_ = "closed"
             THEN [eng |-> [e1 EXCEPT !.playbackStream_ = "none"],
                   pb |-> ResetJitterBuffer(pb), ok |-> FALSE]
             ELSE [eng |-> [e1 EXCEPT !.playbackStream_ = "started", !.isPlaying_ = TRUE],
                   pb |-> ResetJitterBuffer(pb), ok |-> TRUE]

\* stopPlayback()
StopPlayback(e) ==
    IF ~e.isPlaying_ THEN e
    ELSE [e EXCEPT !.isPlaying_ = FALSE, !.playbackStream_ = "none"]

\* A mutation of CaptureOnErrorBeforeClose: the flag is left alone.
CaptureOnErrorBeforeClose_KeepsFlag(e, error) ==
    [eng |-> [e EXCEPT !.captureStream_ = "closed"],
     notified |-> IF e.callback_ THEN <<error>> ELSE <<>>]

\* CaptureCallback::onErrorBeforeClose(stream, error): the engine afterwards
\* (the device closes the stream once the callback returns) and the codes
\* passed to callback_->onAudioError.
CaptureOnErrorBeforeClose(e, error) ==
    [eng |-> [e EXCEPT !.isCapturing_ = FALSE, !.captureStream_ = "closed"],
     notified |-> IF e.callback_ THEN <<error>> ELSE <<>>]

\* PlaybackCallback::onErrorBeforeClose(stream, error)
PlaybackOnErrorBeforeClose(e, error) ==
    [eng |-> [e EXCEPT !.isPlaying_ = FALSE, !.playbackStream_ = "closed"],
     notified |-> IF e.callback_ THEN <<error>> ELSE <<>>]

\* ~AudioEngine()
EngineDestroy(e) == StopPlayback(StopCapture(e))

\* PlaybackCallback::enqueueAudio(data, size)
EnqueueAudio(pb, data, size) ==
    LET jb == IF pb = <<>> THEN NewJitterBuffer ELSE pb[1]
    IN  <<JbEnqueue(jb, data, size)>>

\* The samples of a capture burst: the microphone numbers its samples
\* consecutively, from first on.
Burst(first, numFrames) == [i \in 1..numFrames |-> first + i - 1]

\* A mutation of Accumulate: the frame is cut as soon as a burst arrives.
Accumulate_Short(buf, input) ==
    [pcmBuffer_ |-> <<>>, needEncode |-> TRUE, frameBuffer |-> buf \o input]

\* A mutation of Accumulate: the frame handed over is not erased.
Accumulate_KeepsFrame(buf, input) ==
    LET all == buf \o input
    IN  IF Len(all) >= OPUS_FRAME_SIZE
        THEN [pcmBuffer_ |-> all, needEncode |-> TRUE,
              frameBuffer |-> SubSeq(all, 1, OPUS_FRAME_SIZE)]
        ELSE [pcmBuffer_ |-> all, needEncode |-> FALSE, frameBuffer |-> <<>>]

\* Step 1 of CaptureCallback::onAudioReady: append the burst, and take one
\* frame off the front when at least OPUS_FRAME_SIZE samples are buffered.
Accumulate(buf, input) ==
    LET all == buf \o input
    IN  IF Len(all) >= OPUS_FRAME_SIZE
        THEN [pcmBuffer_ |-> SubSeq(all, OPUS_FRAME_SIZE + 1, Len(all)),
              needEncode |-> TRUE,
              frameBuffer |-> SubSeq(all, 1, OPUS_FRAME_SIZE)]
        ELSE [pcmBuffer_ |-> all, needEncode |-> FALSE, frameBuffer |-> <<>>]

\* The codec statistics after one frame was encoded and handed on.
StatsAfterEncode(st, encodedBytes) ==
    [st EXCEPT !.framesEncoded = @ + 1,
               !.bytesEncoded = @ + encodedBytes,
               !.bytesTransmitted = @ + OPUS_FRAME_SIZE * 2]

\* outputBufferPos_ >= outputBuffer_.size() - numFrames, in size_t
\* arithmetic: when size < numFrames the difference wraps to a value above
\* every index a vector can have, and the comparison is false.
RunningLow(pos, size, numFrames) ==
    IF size >= numFrames THEN pos >= size - numFrames ELSE FALSE

\* The PCM a packet decodes to, and the PCM loss concealment synthesizes.
DecodedPcm(packet, n) == [i \in 1..n |-> packet.body]

ConcealedPcm(n) == [i \in 1..n |-> 0 - 1]

\* A mutation of SilenceFill: one sample is left unwritten.
SilenceFill_Short(n) == [i \in 1..(n - 1) |-> 0]

\* std::memset(output, 0, n * sizeof(int16_t)): n samples of silence.
SilenceFill(n) == [i \in 1..n |-> 0]

\* PlaybackCallback::onAudioReady while playing: decoded is the value decode
\* returns for the dequeued packet, concealed the value decodePLC returns.
PlaybackFill(e, pb, numFrames, decoded, concealed) ==
    LET tryDequeue == RunningLow(e.outputBufferPos_, Len(e.outputBuffer_), numFrames)
                      /\ pb # <<>>
        r == IF tryDequeue THEN JbDequeue(pb[1]) ELSE NoPacket(NewJitterBuffer)
        got == tryDequeue /\ r.ok /\ r.size > 0
        decodeOk == got /\ e.opusDecoder_ /\ decoded > 0
        plc == got /\ e.opusDecoder_ /\ ~(decoded > 0)
        added == IF decodeOk THEN DecodedPcm(r.data, decoded)
                 ELSE IF plc /\ concealed > 0 THEN ConcealedPcm(concealed)
                 ELSE <<>>
        buf == e.outputBuffer_ \o added
        pos == e.outputBufferPos_
        toCopy == IF pos < Len(buf)
                  THEN (IF numFrames < Len(buf) - pos THEN numFrames ELSE Len(buf) - pos)
                  ELSE 0
        output == SubSeq(buf, pos + 1, pos + toCopy) \o SilenceFill(numFrames - toCopy)
        pos2 == pos + toCopy
        cleanup == pos2 >= Len(buf) \div 2
    IN  [eng |-> [e EXCEPT !.outputBuffer_ = IF cleanup THEN SubSeq(buf, pos2 + 1, Len(buf)) ELSE buf,
                           !.outputBufferPos_ = IF cleanup THEN 0 ELSE pos2,
                           !.stats_.framesDecoded = IF decodeOk THEN @ + 1 ELSE @,
                           !.decoderFrames_ = IF got /\ e.opusDecoder_ THEN @ + 1 ELSE @],
         pb |-> IF tryDequeue THEN <<r.jb>> ELSE pb,
         tried |-> tryDequeue, got |-> got, decodeOk |-> decodeOk, plc |-> plc,
         added |-> added, output |-> output, silence |-> numFrames - toCopy]

(***************************************************************************)
(* Initial state of the engine, the globals and the history                *)
(***************************************************************************)
NoHeader == [data |-> NoData, size |-> 0, sent |-> FALSE]

SysInit ==
    /\ g_audioEngine = FALSE
    /\ eng = NewAudioEngine
    /\ pbJitterBuffer_ = <<>>
    /\ micNext = 1
    /\ steps = 0
    /\ last = [op |-> "new"]
    /\ prev = [g_packetizer |-> FALSE, rtp |-> NewPacketizer(U32(0, 1)), jb |-> NewJitterBuffer,
               g_audioEngine |-> FALSE, eng |-> NewAudioEngine, pb |-> <<>>,
               last |-> [op |-> "new"]]
    /\ hdrPrev = NoHeader
    /\ hdrLast = NoHeader
    /\ hdrCount = 0
    /\ captured = <<>>
    /\ emitted = <<>>

\* No packetizer and no engine: the state before nativeInitialize.
SysIdle ==
    /\ SysInit
    /\ g_packetizer = FALSE
    /\ rtp = NewPacketizer(U32(0, 1))

(***************************************************************************)
(* Operations on the jitter buffer object, with their history              *)
(***************************************************************************)
JbInit ==
    /\ jitterBuffer_ = NewJitterBuffer
    /\ jbPrev = NewJitterBuffer
    /\ jbLast = [op |-> "new"]
    /\ jbPending = <<>>
    /\ jbArrivals = 0
    /\ jbOps = 0
    /\ jbResets = 0
    /\ jbAfterReset = 0

\* enqueue(data, size) is called with a datagram whose header carries seq.
EnqueueOp(seq, size) ==
    LET data == Datagram(seq, U32(0, 1), jbArrivals + 1)
        accepted == JbAccepts(size)
        full == JbIsFull(jitterBuffer_)
    IN  /\ jitterBuffer_' = JbEnqueue(jitterBuffer_, data, size)
        /\ jbPrev' = jitterBuffer_
        /\ jbLast' = [op |-> "enqueue", seq |-> seq, size |-> size, data |-> data,
                      accepted |-> accepted, full |-> accepted /\ full]
        /\ jbPending' = IF ~accepted THEN jbPending
                        ELSE (IF full THEN Tail(jbPending) ELSE jbPending)
                             \o <<[data |-> data, size |-> size]>>
        /\ jbArrivals' = jbArrivals + 1

DequeueOp ==
    LET r == JbDequeue(jitterBuffer_)
    IN  /\ jitterBuffer_' = r.jb
        /\ jbPrev' = jitterBuffer_
        /\ jbLast' = [op |-> "dequeue", ok |-> r.ok, size |-> r.size, data |-> r.data,
                      expected |-> IF jbPending = <<>>
                                   THEN [ok |-> FALSE, size |-> 0, data |-> NoData]
                                   ELSE [ok |-> TRUE, size |-> Head(jbPending).size,
                                         data |-> Head(jbPending).data]]
        /\ jbPending' = IF jbPending = <<>> THEN jbPending ELSE Tail(jbPending)
        /\ UNCHANGED jbArrivals

ResetOp ==
    /\ jitterBuffer_' = JbReset(jitterBuffer_)
    /\ jbPrev' = jitterBuffer_
    /\ jbLast' = [op |-> "reset"]
    /\ jbPending' = <<>>
    /\ UNCHANGED jbArrivals

(***************************************************************************)
(* SpecGap: the jitter buffer driven by a few operations with freely       *)
(* chosen sequence numbers and sizes                                       *)
(***************************************************************************)
GapSeqs == {0, 1, 2, 5, 100, 101, 102, 65535}

GapSizes == {RTP_HEADER_SIZE - 1, RTP_HEADER_SIZE, JB_MAX_PACKET_SIZE, JB_MAX_PACKET_SIZE + 1}

GapEnqueue ==
    /\ jbOps < MaxGapOps
    /\ \E seq \in GapSeqs, size \in GapSizes : EnqueueOp(seq, size)
    /\ jbOps' = jbOps + 1
    /\ UNCHANGED <<jbResets, jbAfterReset, pattern, sysVars>>

GapDequeue ==
    /\ jbOps < MaxGapOps
    /\ DequeueOp
    /\ jbOps' = jbOps + 1
    /\ UNCHANGED <<jbResets, jbAfterReset, pattern, sysVars>>

GapReset ==
    /\ jbOps < MaxGapOps
    /\ ResetOp
    /\ jbOps' = jbOps + 1
    /\ UNCHANGED <<jbResets, jbAfterReset, pattern, sysVars>>

InitGap == JbInit /\ pattern = "free" /\ SysIdle

NextGap == GapEnqueue \/ GapDequeue \/ GapReset

SpecGap == InitGap /\ [][NextGap]_vars

(***************************************************************************)
(* SpecJb: the jitter buffer filled past its capacity by an arrival stream *)
(***************************************************************************)
Patterns == {"inorder", "reordered", "gappy"}

\* Header sequence number of the k-th datagram of the stream (k = 1, 2, ...):
\* in order across the 16-bit wrap, adjacent pairs swapped, or two of three lost.
StreamSeq(p, k) ==
    CASE p = "inorder" -> (65500 + k) % SEQ_MOD
      [] p = "reordered" -> IF k % 2 = 1 THEN k + 1 ELSE k - 1
      [] p = "gappy" -> (3 * k) % SEQ_MOD

StreamSize(k) == RTP_HEADER_SIZE + (k % 3)

JbBounded == jbResets = 0 \/ jbAfterReset < MaxAfterReset

StreamEnqueue ==
    /\ jbArrivals < MaxEnqueues
    /\ JbBounded
    /\ EnqueueOp(StreamSeq(pattern, jbArrivals + 1), StreamSize(jbArrivals + 1))
    /\ jbAfterReset' = IF jbResets = 0 THEN 0 ELSE jbAfterReset + 1
    /\ UNCHANGED <<jbOps, jbResets, pattern, sysVars>>

StreamDequeue ==
    /\ JbBounded
    /\ DequeueOp
    /\ jbAfterReset' = IF jbResets = 0 THEN 0 ELSE jbAfterReset + 1
    /\ UNCHANGED <<jbOps, jbResets, pattern, sysVars>>

StreamReset ==
    /\ jbResets < MaxResets
    /\ ResetOp
    /\ jbResets' = jbResets + 1
    /\ jbAfterReset' = 0
    /\ UNCHANGED <<jbOps, pattern, sysVars>>

InitJb == JbInit /\ pattern \in Patterns /\ SysIdle

NextJb == StreamEnqueue \/ StreamDequeue \/ StreamReset

SpecJb == InitJb /\ [][NextJb]_vars

\* The handlers' initial state: nothing initialized.
InitSys == JbInit /\ pattern = "free" /\ SysIdle

(***************************************************************************)
(* Handlers: the JNI entry points, the receive thread and the two audio    *)
(* callbacks, each with its history                                        *)
(***************************************************************************)
\* The SSRC values the constructor's random draw is taken from here, and the
\* SSRC values datagrams arrive with.
LocalSsrcs == {U32(0, 1), U32(65535, 65535)}

RemoteSsrcs == LocalSsrcs \cup {U32(0, 2)}

Peers == {"10.0.0.2", "10.0.0.3"}

jbHist == <<jbPrev, jbLast, jbPending, jbArrivals, jbOps, jbResets, jbAfterReset, pattern>>

Snapshot ==
    [g_packetizer |-> g_packetizer, rtp |-> rtp, jb |-> jitterBuffer_,
     g_audioEngine |-> g_audioEngine, eng |-> eng, pb |-> pbJitterBuffer_,
     last |-> last]

Hist(op) ==
    /\ last' = op
    /\ prev' = Snapshot
    /\ steps' = steps + 1

\* History of the packets sendAudio builds.
HdrHist(s) ==
    IF s.built
    THEN /\ hdrPrev' = hdrLast
         /\ hdrLast' = [data |-> s.packet, size |-> s.size, sent |-> s.sent]
         /\ hdrCount' = IF hdrCount < 2 THEN hdrCount + 1 ELSE hdrCount
    ELSE UNCHANGED <<hdrPrev, hdrLast, hdrCount>>

\* Points at which nativeInitialize can fail.
InitFaults == EngineFaults \cup {"string"} \cup SocketFaults

\* nativeInitialize(group, port, enableUnicastFallback)
NativeInitialize(faults, ssrcs) ==
    \E fallback \in BOOLEAN, fault \in faults, ssrc \in ssrcs, joined \in BOOLEAN :
        LET e == EngineInitialize(NewAudioEngine,
                                  IF fault \in EngineFaults THEN fault ELSE "none")
            oldRtp == IF g_packetizer THEN RtpDestroy(rtp, joined) ELSE rtp
            mode == IF fallback THEN "AUTO" ELSE "MULTICAST"
            p == RtpInitialize(NewPacketizer(ssrc), mode,
                               IF fault \in SocketFaults THEN fault ELSE "none")
        IN  /\ pbJitterBuffer_' = <<>>
            /\ IF ~e.ok \/ fault = "string"
               THEN /\ g_audioEngine' = TRUE
                    /\ eng' = e.eng
                    /\ g_packetizer' = FALSE
                    /\ rtp' = oldRtp
                    /\ UNCHANGED jitterBuffer_
               ELSE /\ g_packetizer' = TRUE
                    /\ jitterBuffer_' = NewJitterBuffer
                    /\ IF ~p.ok
                       THEN /\ g_audioEngine' = FALSE
                            /\ eng' = EngineDestroy(e.eng)
                            /\ rtp' = p.rtp
                       ELSE /\ g_audioEngine' = TRUE
                            /\ eng' = e.eng
                            /\ rtp' = StartReceiveLoop(RtpStart(
                                          [p.rtp EXCEPT !.audioCallback_ = TRUE]))
            /\ Hist([op |-> "nativeInitialize", fault |-> fault,
                     ok |-> e.ok /\ fault # "string" /\ p.ok])
            /\ captured' = <<>>
            /\ emitted' = <<>>
            /\ UNCHANGED <<jbHist, micNext, hdrPrev, hdrLast, hdrCount>>

\* nativeStartCapture()
NativeStartCapture ==
    \E startOk \in BOOLEAN :
        LET r == IF g_audioEngine THEN StartCapture(eng, startOk)
                 ELSE [eng |-> eng, ok |-> FALSE, cleared |-> FALSE]
        IN  /\ eng' = r.eng
            /\ captured' = IF r.cleared THEN <<>> ELSE captured
            /\ emitted' = IF r.cleared THEN <<>> ELSE emitted
            /\ Hist([op |-> "nativeStartCapture", startOk |-> startOk, ok |-> r.ok])
            /\ UNCHANGED <<jbVars, rtpVars, g_audioEngine, pbJitterBuffer_,
                           micNext, hdrPrev, hdrLast, hdrCount>>

\* nativeStopCapture()
NativeStopCapture ==
    /\ eng' = IF g_audioEngine THEN StopCapture(eng) ELSE eng
    /\ Hist([op |-> "nativeStopCapture",
             wasCapturing |-> g_audioEngine /\ eng.isCapturing_,
             buffered |-> Len(eng.pcmBuffer_)])
    /\ UNCHANGED <<jbVars, rtpVars, g_audioEngine, pbJitterBuffer_,
                   micNext, hdrPrev, hdrLast, hdrCount, captured, emitted>>

\* nativeStartPlayback()
NativeStartPlayback ==
    \E startOk \in BOOLEAN :
        LET r == IF g_audioEngine THEN StartPlayback(eng, pbJitterBuffer_, startOk)
                 ELSE [eng |-> eng, pb |-> pbJitterBuffer_, ok |-> FALSE]
        IN  /\ eng' = r.eng
            /\ pbJitterBuffer_' = r.pb
            /\ Hist([op |-> "nativeStartPlayback", startOk |-> startOk, ok |-> r.ok])
            /\ UNCHANGED <<jbVars, rtpVars, g_audioEngine,
                           micNext, hdrPrev, hdrLast, hdrCount, captured, emitted>>

\* nativeStopPlayback()
NativeStopPlayback ==
    /\ eng' = IF g_audioEngine THEN StopPlayback(eng) ELSE eng
    /\ Hist([op |-> "nativeStopPlayback"])
    /\ UNCHANGED <<jbVars, rtpVars, g_audioEngine, pbJitterBuffer_,
                   micNext, hdrPrev, hdrLast, hdrCount, captured, emitted>>

\* nativeEnqueueAudio(data)
NativeEnqueueAudio ==
    \E id \in 1..2, size \in {0, RTP_HEADER_SIZE - 1, RTP_HEADER_SIZE + 28} :
        /\ pbJitterBuffer_' = IF g_audioEngine /\ size > 0
                              THEN EnqueueAudio(pbJitterBuffer_, OpusPayload(id), size)
                              ELSE pbJitterBuffer_
        /\ Hist([op |-> "nativeEnqueueAudio", size |-> size])
        /\ UNCHANGED <<jbVars, rtpVars, g_audioEngine, eng,
                       micNext, hdrPrev, hdrLast, hdrCount, captured, emitted>>

\* nativeCleanup()
NativeCleanup ==
    \E joined \in BOOLEAN :
        /\ g_audioEngine' = FALSE
        /\ eng' = IF g_audioEngine THEN EngineDestroy(eng) ELSE eng
        /\ pbJitterBuffer_' = <<>>
        /\ g_packetizer' = FALSE
        /\ rtp' = IF g_packetizer THEN RtpDestroy(rtp, joined) ELSE rtp
        /\ Hist([op |-> "nativeCleanup"])
        /\ UNCHANGED <<jbVars, micNext, hdrPrev, hdrLast, hdrCount, captured, emitted>>

\* nativeAddUnicastPeer(peerAddress)
NativeAddUnicastPeer ==
    \E ip \in Peers :
        /\ rtp' = IF g_packetizer THEN AddUnicastPeer(rtp, ip) ELSE rtp
        /\ Hist([op |-> "nativeAddUnicastPeer", ip |-> ip])
        /\ UNCHANGED <<jbVars, g_packetizer, engVars,
                       micNext, hdrPrev, hdrLast, hdrCount, captured, emitted>>

\* Sizes the encoder returns: a failure, an ordinary packet, the largest packet.
EncodedSizes == {0 - 1, 40, OPUS_MAX_PACKET_SIZE}

\* Burst lengths the capture stream delivers.
BurstSizes == {kFramesPerBurst, OPUS_FRAME_SIZE}

\* CaptureCallback::onAudioReady(stream, audioData, numFrames), with the
\* encoder, PttAudioCallback::onAudioData and sendAudio it calls.
CaptureAudioReady(sizes) ==
    \E numFrames \in BurstSizes, encodedBytes \in sizes,
       mcOk \in BOOLEAN, okPeers \in {{}, Peers} :
        /\ g_audioEngine
        /\ eng.captureStream_ = "started"
        /\ LET input == Burst(micNext, numFrames)
               a == IF eng.isCapturing_ THEN Accumulate(eng.pcmBuffer_, input)
                    ELSE [pcmBuffer_ |-> eng.pcmBuffer_, needEncode |-> FALSE,
                          frameBuffer |-> <<>>]
               encode == a.needEncode /\ eng.opusEncoder_
               handOn == encode /\ encodedBytes > 0 /\ eng.callback_
               s == IF handOn /\ g_packetizer
                    THEN SendAudio(rtp, OpusPayload(a.frameBuffer[1]), encodedBytes,
                                   FALSE, mcOk, okPeers)
                    ELSE [rtp |-> rtp, built |-> FALSE, packet |-> NoData,
                          size |-> 0, sent |-> FALSE]
           IN  /\ eng' = [eng EXCEPT !.pcmBuffer_ = a.pcmBuffer_,
                                     !.encoderFrames_ = IF encode THEN @ + 1 ELSE @,
                                     !.stats_ = IF handOn
                                                THEN StatsAfterEncode(@, encodedBytes)
                                                ELSE @]
               /\ rtp' = s.rtp
               /\ HdrHist(s)
               /\ captured' = IF eng.isCapturing_ THEN captured \o input ELSE captured
               /\ emitted' = IF encode THEN Append(emitted, a.frameBuffer) ELSE emitted
               /\ micNext' = micNext + numFrames
               /\ Hist([op |-> "captureAudioReady", numFrames |-> numFrames,
                        needEncode |-> a.needEncode, encodedBytes |-> encodedBytes,
                        built |-> s.built, sent |-> s.sent])
        /\ UNCHANGED <<jbVars, g_packetizer, g_audioEngine, pbJitterBuffer_>>

\* Values decode and decodePLC return: a failure or a full frame.
DecodedSizes == {0 - 1, OPUS_FRAME_SIZE}

\* PlaybackCallback::onAudioReady(stream, audioData, numFrames)
PlaybackAudioReady ==
    \E decoded \in DecodedSizes, concealed \in DecodedSizes :
        /\ g_audioEngine
        /\ eng.playbackStream_ = "started"
        /\ LET numFrames == kFramesPerBurst
               unread == Len(eng.outputBuffer_) - eng.outputBufferPos_
               r == IF eng.isPlaying_
                    THEN PlaybackFill(eng, pbJitterBuffer_, numFrames, decoded, concealed)
                    ELSE [eng |-> eng, pb |-> pbJitterBuffer_, tried |-> FALSE,
                          got |-> FALSE, decodeOk |-> FALSE, plc |-> FALSE, added |-> <<>>,
                          output |-> SilenceFill(numFrames), silence |-> numFrames]
           IN  /\ eng' = r.eng
               /\ pbJitterBuffer_' = r.pb
               /\ Hist([op |-> "playbackAudioReady", playing |-> eng.isPlaying_,
                        numFrames |-> numFrames, needsMore |-> unread < numFrames,
                        tried |-> r.tried, got |-> r.got, decodeOk |-> r.decodeOk,
                        plc |-> r.plc, added |-> r.added, output |-> r.output,
                        silence |-> r.silence])
        /\ UNCHANGED <<jbVars, rtpVars, g_audioEngine,
                       micNext, hdrPrev, hdrLast, hdrCount, captured, emitted>>

\* What one pass of the receive loop finds: nothing within the wait, or a
\* datagram of "received" bytes.
RxSeqs == {1, 3}

RxSizes == {RTP_HEADER_SIZE, RTP_HEADER_SIZE + 1, RTP_HEADER_SIZE + 28}

RxEvents ==
    {[timeout |-> TRUE, seq |-> 0, from |-> U32(0, 0), received |-> 0]}
    \cup [timeout : {FALSE}, seq : RxSeqs, from : RemoteSsrcs, received : RxSizes]

\* A mutation of IsLoopback: no datagram is taken for the session's own.
IsLoopback_Never(ssrc, own) == FALSE

\* ssrc == ssrc_
IsLoopback(ssrc, own) == ssrc = own

\* One pass of the body of receiveLoop's while loop, with the jitter-buffer
\* enqueue and the receive callback (the lambda nativeInitialize registers).
ReceiveLoopPass(events) ==
    \E ev \in events :
        /\ g_packetizer
        /\ rtp.receiveThread_ = "joinable"
        /\ rtp.receiveRunning_
        /\ LET timeout == ev.timeout
               from == ev.from
               received == ev.received
               buffer == Datagram(ev.seq, from, steps + 1)
               ssrc == Ntohl(buffer.ssrc)
               parsed == ~timeout /\ received > RTP_HEADER_SIZE
               own == parsed /\ IsLoopback(ssrc, rtp.ssrc_)
               deliver == parsed /\ ~own
               called == deliver /\ rtp.audioCallback_
               forward == called /\ g_audioEngine /\ eng.isPlaying_
           IN  /\ jitterBuffer_' = IF deliver THEN JbEnqueue(jitterBuffer_, buffer, received)
                                   ELSE jitterBuffer_
               /\ pbJitterBuffer_' = IF forward
                                     THEN EnqueueAudio(pbJitterBuffer_, StripHeader(buffer),
                                                       received - RTP_HEADER_SIZE)
                                     ELSE pbJitterBuffer_
               /\ rtp' = IF deliver THEN [rtp EXCEPT !.packetsReceived_ = @ + 1] ELSE rtp
               /\ Hist([op |-> "receiveLoopPass", timeout |-> timeout,
                        received |-> received, from |-> from, local |-> rtp.ssrc_,
                        parsed |-> parsed, enqueued |-> deliver, called |-> called])
        /\ UNCHANGED <<jbHist, g_packetizer, g_audioEngine, eng,
                       micNext, hdrPrev, hdrLast, hdrCount, captured, emitted>>

(***************************************************************************)
(* SpecSeq: one RtpPacketizer object driven through its public methods,    *)
(* its sequence counter near the 16-bit wrap                               *)
(***************************************************************************)
\* The object after initialize in AUTO mode, start, and n packets sent, each
\* to at least one destination.
AfterSends(p, n) ==
    LET q == RtpStart(RtpInitialize(p, "AUTO", "none").rtp)
    IN  [q EXCEPT !.sequence_ = n % SEQ_MOD,
                  !.timestamp_ = U32((n * q.samplesPerFrame_) \div SEQ_MOD, n * q.samplesPerFrame_),
                  !.packetsSent_ = n]

SentBefore == {0, MaxSentBefore}

SeqInitialize ==
    /\ steps < MaxSeqSteps
    /\ rtp.socket_ < 0
    /\ \E mode \in TransportModes, fault \in SocketFaults :
          /\ rtp' = RtpInitialize(rtp, mode, fault).rtp
          /\ Hist([op |-> "initialize", mode |-> mode, fault |-> fault])
    /\ UNCHANGED <<jbVars, g_packetizer, engVars, micNext, hdrPrev, hdrLast, hdrCount,
                   captured, emitted>>

SeqStart ==
    /\ steps < MaxSeqSteps
    /\ rtp' = RtpStart(rtp)
    /\ Hist([op |-> "start"])
    /\ UNCHANGED <<jbVars, g_packetizer, engVars, micNext, hdrPrev, hdrLast, hdrCount,
                   captured, emitted>>

SeqStop ==
    /\ steps < MaxSeqSteps
    /\ \E joined \in BOOLEAN : rtp' = RtpStop(rtp, joined)
    /\ Hist([op |-> "stop"])
    /\ UNCHANGED <<jbVars, g_packetizer, engVars, micNext, hdrPrev, hdrLast, hdrCount,
                   captured, emitted>>

SeqAddPeer ==
    /\ steps < MaxSeqSteps
    /\ \E ip \in Peers : rtp' = AddUnicastPeer(rtp, ip)
    /\ Hist([op |-> "addUnicastPeer"])
    /\ UNCHANGED <<jbVars, g_packetizer, engVars, micNext, hdrPrev, hdrLast, hdrCount,
                   captured, emitted>>

SeqSend ==
    /\ steps < MaxSeqSteps
    /\ \E opusSize \in {40, OPUS_MAX_PACKET_SIZE}, isMarker \in BOOLEAN,
          mcOk \in BOOLEAN, okPeers \in {{}, Peers} :
          LET s == SendAudio(rtp, OpusPayload(steps + 1), opusSize, isMarker, mcOk, okPeers)
          IN  /\ rtp' = s.rtp
              /\ HdrHist(s)
              /\ Hist([op |-> "sendAudio", built |-> s.built, sent |-> s.sent])
    /\ UNCHANGED <<jbVars, g_packetizer, engVars, micNext, captured, emitted>>

InitSeq ==
    /\ JbInit
    /\ pattern = "free"
    /\ SysInit
    /\ g_packetizer = TRUE
    /\ \E ssrc \in LocalSsrcs, n \in SentBefore :
          rtp = IF n = 0 THEN NewPacketizer(ssrc) ELSE AfterSends(NewPacketizer(ssrc), n)

NextSeq == SeqInitialize \/ SeqStart \/ SeqStop \/ SeqAddPeer \/ SeqSend

SpecSeq == InitSeq /\ [][NextSeq]_vars

(***************************************************************************)
(* SpecMode: one RtpPacketizer session from construction, through every    *)
(* public method and its receive thread                                    *)
(***************************************************************************)
ModeFaults == {"none", "bind", "join"}

ModeEvents ==
    {[timeout |-> TRUE, seq |-> 0, from |-> U32(0, 0), received |-> 0],
     [timeout |-> FALSE, seq |-> 1, from |-> U32(0, 2), received |-> RTP_HEADER_SIZE + 28]}

ModeRest == <<jbVars, g_packetizer, engVars, micNext, hdrPrev, hdrLast, hdrCount, captured, emitted>>

\* initialize is called on an object that has no socket: nativeInitialize,
\* its only caller, calls it once on the object it has just constructed.
ModeInitialize ==
    /\ steps < MaxInitSteps
    /\ rtp.socket_ < 0
    /\ \E mode \in TransportModes, fault \in ModeFaults :
          LET r == RtpInitialize(rtp, mode, fault)
          IN  /\ rtp' = r.rtp
              /\ Hist([op |-> "initialize", mode |-> mode, fault |-> fault, ok |-> r.ok])
    /\ UNCHANGED ModeRest

ModeStart ==
    /\ steps < MaxModeSteps
    /\ rtp' = RtpStart(rtp)
    /\ Hist([op |-> "start"])
    /\ UNCHANGED ModeRest

ModeStop ==
    /\ steps < MaxModeSteps
    /\ \E joined \in BOOLEAN : rtp' = RtpStop(rtp, joined)
    /\ Hist([op |-> "stop"])
    /\ UNCHANGED ModeRest

ModeAddPeer ==
    /\ steps < MaxModeSteps
    /\ \E ip \in Peers : rtp' = AddUnicastPeer(rtp, ip)
    /\ Hist([op |-> "addUnicastPeer"])
    /\ UNCHANGED ModeRest

ModeClearPeers ==
    /\ steps < MaxModeSteps
    /\ rtp' = ClearUnicastPeers(rtp)
    /\ Hist([op |-> "clearUnicastPeers"])
    /\ UNCHANGED ModeRest

ModeSend ==
    /\ steps < MaxModeSteps
    /\ \E mcOk \in BOOLEAN, okPeers \in SUBSET Peers :
          LET s == SendAudio(rtp, OpusPayload(steps + 1), 40, FALSE, mcOk, okPeers)
          IN  /\ rtp' = s.rtp
              /\ HdrHist(s)
              /\ Hist([op |-> "sendAudio", built |-> s.built, sent |-> s.sent,
                       calls |-> IF s.built THEN SendToAllCalls(rtp, mcOk, okPeers) ELSE <<>>])
    /\ UNCHANGED <<jbVars, g_packetizer, engVars, micNext, captured, emitted>>

ModeStartReceive ==
    /\ steps < MaxModeSteps
    /\ rtp' = StartReceiveLoop(rtp)
    /\ Hist([op |-> "startReceiveLoop"])
    /\ UNCHANGED ModeRest

ModeReceive == steps < MaxModeSteps /\ ReceiveLoopPass(ModeEvents)

InitMode ==
    /\ JbInit
    /\ pattern = "free"
    /\ SysInit
    /\ g_packetizer = TRUE
    /\ \E ssrc \in LocalSsrcs : rtp = NewPacketizer(ssrc)

NextMode ==
    \/ ModeInitialize \/ ModeStart \/ ModeStop \/ ModeAddPeer \/ ModeClearPeers
    \/ ModeSend \/ ModeStartReceive \/ ModeReceive

SpecMode == InitMode /\ [][NextMode]_vars

(***************************************************************************)
(* SpecBitrate: setBitrate called on a constructed OpusEncoder              *)
(***************************************************************************)
BitrateInputs ==
    {0 - 2147483647, 0 - 1, 0, 3000, 5999, 6000, 6001, OPUS_BITRATE, 23999, 24000, 24001,
     63999, 64000, 64001, 100000, 2147483647}

EncSetBitrate ==
    /\ steps < MaxBitrateSteps
    /\ \E b \in BitrateInputs :
          /\ eng' = [eng EXCEPT !.bitrate_ = SetBitrate(b)]
          /\ Hist([op |-> "setBitrate", bitrate |-> b])
    /\ UNCHANGED <<jbVars, rtpVars, g_audioEngine, pbJitterBuffer_, micNext,
                   hdrPrev, hdrLast, hdrCount, captured, emitted>>

InitBitrate ==
    /\ JbInit
    /\ pattern = "free"
    /\ g_packetizer = FALSE
    /\ rtp = NewPacketizer(U32(0, 1))
    /\ g_audioEngine = FALSE
    /\ eng = [NewAudioEngine EXCEPT !.opusEncoder_ = TRUE]
    /\ pbJitterBuffer_ = <<>>
    /\ micNext = 1
    /\ steps = 0
    /\ last = [op |-> "new"]
    /\ prev = [g_packetizer |-> FALSE, rtp |-> NewPacketizer(U32(0, 1)), jb |-> NewJitterBuffer,
               g_audioEngine |-> FALSE, eng |-> NewAudioEngine, pb |-> <<>>,
               last |-> [op |-> "new"]]
    /\ hdrPrev = NoHeader
    /\ hdrLast = NoHeader
    /\ hdrCount = 0
    /\ captured = <<>>
    /\ emitted = <<>>

NextBitrate == EncSetBitrate

SpecBitrate == InitBitrate /\ [][NextBitrate]_vars

(***************************************************************************)
(* SpecCancel: the receive thread step by step (loop condition, wait,      *)
(* recvfrom and processing) against startReceiveLoop and stopReceiveLoop    *)
(***************************************************************************)
CancelFaults == {"none", "pipe"}

CancelRest == <<jbHist, g_packetizer, g_audioEngine, eng, micNext, hdrPrev, hdrLast, hdrCount,
                captured, emitted>>

CancelInitialize == steps < MaxInitSteps /\ NativeInitialize(CancelFaults, {U32(0, 1)})

CancelStartPlayback == steps < MaxCancelSteps /\ ~rtp.joining_ /\ NativeStartPlayback

CancelStartLoop ==
    /\ steps < MaxCancelSteps
    /\ g_packetizer
    /\ rtp.socket_ >= 0
    /\ ~rtp.joining_
    /\ rtp' = StartReceiveLoop(rtp)
    /\ Hist([op |-> "startReceiveLoop"])
    /\ UNCHANGED <<jitterBuffer_, pbJitterBuffer_, CancelRest>>

\* stopReceiveLoop() up to the join.
CancelSignal ==
    /\ steps < MaxCancelSteps
    /\ g_packetizer
    /\ ~rtp.joining_
    /\ rtp' = SignalShutdown(rtp)
    /\ Hist([op |-> "stopReceiveLoop", at |-> rtp.receiveAt_])
    /\ UNCHANGED <<jitterBuffer_, pbJitterBuffer_, CancelRest>>

\* The join returns: the thread has left receiveLoop.  The 500 ms limit on
\* the join is five waits of the thread long.
CancelJoin ==
    /\ rtp.joining_
    /\ rtp.receiveAt_ = "done"
    /\ rtp' = JoinReceiveThread(rtp)
    /\ last' = [op |-> "joined"]
    /\ UNCHANGED <<jitterBuffer_, pbJitterBuffer_, CancelRest, steps, prev>>

\* What the thread has done since the last call of the host: the waits it
\* began after the flag was cleared, and whether it has read the wake byte
\* of that stop.
ThreadWaits == IF last.op = "receiveLoop" THEN last.waits ELSE 0

ThreadWoken == IF last.op = "receiveLoop" THEN last.woken ELSE FALSE

\* while (receiveRunning_)
ThreadCheck ==
    /\ rtp.receiveAt_ = "check"
    /\ rtp' = [rtp EXCEPT !.receiveAt_ = ReceiveLoopCondition(rtp)]
    /\ last' = [op |-> "receiveLoop", at |-> "check", cancelled |-> ~rtp.receiveRunning_,
                waits |-> ThreadWaits, woken |-> ThreadWoken]
    /\ UNCHANGED <<jitterBuffer_, pbJitterBuffer_, CancelRest, steps, prev>>

\* if (!waitForData(100)) continue;
ThreadWait ==
    /\ rtp.receiveAt_ = "wait"
    /\ \E ready \in {FALSE} \cup {rtp.packetsReceived_ < MaxCancelData} :
          LET w == WaitForData(rtp, ready)
          IN  /\ rtp' = [w.rtp EXCEPT !.receiveAt_ = IF w.data THEN "recv" ELSE "check"]
              /\ last' = [op |-> "receiveLoop", at |-> "wait", cancelled |-> ~rtp.receiveRunning_,
                          waits |-> ThreadWaits + (IF rtp.receiveRunning_ THEN 0 ELSE 1),
                          woken |-> ThreadWoken \/ (w.woke /\ ~rtp.receiveRunning_)]
    /\ UNCHANGED <<jitterBuffer_, pbJitterBuffer_, CancelRest, steps, prev>>

\* recvfrom, the jitter-buffer enqueue and the receive callback.
ThreadRecv ==
    /\ rtp.receiveAt_ = "recv"
    /\ LET received == RTP_HEADER_SIZE + 28
           buffer == Datagram(rtp.packetsReceived_ + 1, U32(0, 2), rtp.packetsReceived_ + 1)
           forward == rtp.audioCallback_ /\ g_audioEngine /\ eng.isPlaying_
       IN  /\ jitterBuffer_' = JbEnqueue(jitterBuffer_, buffer, received)
           /\ pbJitterBuffer_' = IF forward
                                 THEN EnqueueAudio(pbJitterBuffer_, StripHeader(buffer),
                                                   received - RTP_HEADER_SIZE)
                                 ELSE pbJitterBuffer_
           /\ rtp' = [rtp EXCEPT !.packetsReceived_ = @ + 1, !.receiveAt_ = "check"]
           /\ last' = [op |-> "receiveLoop", at |-> "recv", cancelled |-> ~rtp.receiveRunning_,
                       waits |-> ThreadWaits, woken |-> ThreadWoken]
    /\ UNCHANGED <<CancelRest, steps, prev>>

NextCancel ==
    \/ CancelInitialize \/ CancelStartPlayback \/ CancelStartLoop \/ CancelSignal \/ CancelJoin
    \/ ThreadCheck \/ ThreadWait \/ ThreadRecv

\* The receive thread is scheduled: a step it can take is eventually taken.
SpecCancel ==
    /\ InitSys
    /\ [][NextCancel]_vars
    /\ WF_vars(ThreadCheck)
    /\ WF_vars(ThreadWait)
    /\ WF_vars(ThreadRecv)

(***************************************************************************)
(* SpecStop: stopReceiveLoop with its bounded wait followed step by step.  *)
(* The caller is scheduled and its timed wait ends; nothing is assumed     *)
(* about the receive thread, which may stay where it is for ever.          *)
(***************************************************************************)
StopRest == <<jbHist, g_packetizer, g_audioEngine, eng, micNext, hdrPrev, hdrLast, hdrCount,
              captured, emitted>>

StopInitialize ==
    /\ steps < MaxInitSteps
    /\ rtp.stopAt_ = "none"
    /\ NativeInitialize({"none", "pipe"}, {U32(0, 1)})

StopStartPlayback == steps < MaxStopSteps /\ rtp.stopAt_ = "none" /\ NativeStartPlayback

\* startReceiveLoop(), called when no earlier thread is still in receiveLoop.
StopStartLoop ==
    /\ steps < MaxStopSteps
    /\ g_packetizer
    /\ rtp.socket_ >= 0
    /\ rtp.stopAt_ = "none"
    /\ rtp.receiveAt_ = "none"
    /\ rtp' = StartReceiveLoop(rtp)
    /\ Hist([op |-> "startReceiveLoop"])
    /\ UNCHANGED <<jitterBuffer_, pbJitterBuffer_, StopRest>>

\* stopReceiveLoop() is called.
StopCall ==
    /\ steps < MaxStopSteps
    /\ g_packetizer
    /\ rtp.stopAt_ = "none"
    /\ rtp' = LaunchJoin(rtp)
    /\ Hist([op |-> "stopReceiveLoop", at |-> rtp.receiveAt_])
    /\ UNCHANGED <<jitterBuffer_, pbJitterBuffer_, StopRest>>

\* The thread has returned and the join with it: wait_for returns ready.
StopReady ==
    /\ rtp.stopAt_ = "wait_for"
    /\ JoinTaskDone(rtp)
    /\ rtp' = WaitForReady(rtp)
    /\ last' = [op |-> "wait_for", status |-> "ready", at |-> rtp.receiveAt_]
    /\ UNCHANGED <<jitterBuffer_, pbJitterBuffer_, StopRest, steps, prev>>

\* The 500 ms pass with the thread still in receiveLoop.
StopTimeout ==
    /\ rtp.stopAt_ = "wait_for"
    /\ ~JoinTaskDone(rtp)
    /\ rtp' = WaitForTimeout(rtp)
    /\ last' = [op |-> "wait_for", status |-> "timeout", at |-> rtp.receiveAt_]
    /\ UNCHANGED <<jitterBuffer_, pbJitterBuffer_, StopRest, steps, prev>>

\* The destructor of the future returns once the join of the task has.
StopFutureDestroyed ==
    /\ rtp.stopAt_ = "~future"
    /\ JoinTaskDone(rtp)
    /\ rtp' = FutureDestroyed(rtp)
    /\ last' = [op |-> "~future", at |-> rtp.receiveAt_]
    /\ UNCHANGED <<jitterBuffer_, pbJitterBuffer_, StopRest, steps, prev>>

\* detach() was called while the task was inside join() on the same
\* std::thread, which the language leaves undefined: the join may also end
\* at once with an error, and the destructor then returns with the thread
\* still running.
StopJoinCutShort ==
    /\ rtp.stopAt_ = "~future"
    /\ ~JoinTaskDone(rtp)
    /\ rtp' = FutureDestroyed(rtp)
    /\ last' = [op |-> "~future", at |-> rtp.receiveAt_]
    /\ UNCHANGED <<jitterBuffer_, pbJitterBuffer_, StopRest, steps, prev>>

NextStop ==
    \/ StopInitialize \/ StopStartPlayback \/ StopStartLoop \/ StopCall
    \/ StopReady \/ StopTimeout \/ StopFutureDestroyed \/ StopJoinCutShort
    \/ ThreadCheck \/ ThreadWait \/ ThreadRecv

\* The caller runs and its waits end when their conditions hold; the
\* receive thread and the outcome of the undefined join are left free.
SpecStop ==
    /\ InitSys
    /\ [][NextStop]_vars
    /\ WF_vars(StopReady)
    /\ WF_vars(StopTimeout)
    /\ WF_vars(StopFutureDestroyed)

(***************************************************************************)
(* SpecError: the audio device reports stream errors between the host's    *)
(* start and stop calls and the audio callbacks                            *)
(***************************************************************************)
\* oboe::Result codes the device reports (disconnected, internal error).
ErrorCodes == {0 - 899, 0 - 896}

CaptureError ==
    \E error \in ErrorCodes :
        /\ g_audioEngine
        /\ eng.captureStream_ \in {"open", "started"}
        /\ LET r == CaptureOnErrorBeforeClose(eng, error)
           IN  /\ eng' = r.eng
               /\ Hist([op |-> "captureError", error |-> error, notified |-> r.notified])
        /\ UNCHANGED <<jbVars, rtpVars, g_audioEngine, pbJitterBuffer_, micNext,
                       hdrPrev, hdrLast, hdrCount, captured, emitted>>

PlaybackError ==
    \E error \in ErrorCodes :
        /\ g_audioEngine
        /\ eng.playbackStream_ \in {"open", "started"}
        /\ LET r == PlaybackOnErrorBeforeClose(eng, error)
           IN  /\ eng' = r.eng
               /\ Hist([op |-> "playbackError", error |-> error, notified |-> r.notified])
        /\ UNCHANGED <<jbVars, rtpVars, g_audioEngine, pbJitterBuffer_, micNext,
                       hdrPrev, hdrLast, hdrCount, captured, emitted>>

ErrInitialize == steps < MaxInitSteps /\ NativeInitialize({"none"}, {U32(0, 1)})

ErrStartCapture == steps < MaxErrSteps /\ NativeStartCapture

ErrStopCapture == steps < MaxErrSteps /\ NativeStopCapture

ErrStartPlayback == steps < MaxErrSteps /\ NativeStartPlayback

ErrStopPlayback == steps < MaxErrSteps /\ NativeStopPlayback

ErrCaptureError == steps < MaxErrSteps /\ CaptureError

ErrPlaybackError == steps < MaxErrSteps /\ PlaybackError

ErrCaptureReady == steps < MaxErrSteps /\ CaptureAudioReady({40})

ErrPlaybackReady == steps < MaxErrSteps /\ PlaybackAudioReady

ErrReceive == steps < MaxErrSteps /\ ReceiveLoopPass(ModeEvents)

NextError ==
    \/ ErrInitialize \/ ErrStartCapture \/ ErrStopCapture \/ ErrStartPlayback \/ ErrStopPlayback
    \/ ErrCaptureError \/ ErrPlaybackError \/ ErrCaptureReady \/ ErrPlaybackReady \/ ErrReceive

SpecError == InitSys /\ [][NextError]_vars

(***************************************************************************)
(* SpecRx: the receive thread, with playback started and stopped           *)
(***************************************************************************)
RxInitialize == steps < MaxInitSteps /\ NativeInitialize(InitFaults, LocalSsrcs)

RxStartPlayback == steps < MaxRxSteps /\ NativeStartPlayback

RxStopPlayback == steps < MaxRxSteps /\ NativeStopPlayback

RxReceive == steps < MaxRxSteps /\ ReceiveLoopPass(RxEvents)


NextRx == RxInitialize \/ RxStartPlayback \/ RxStopPlayback \/ RxReceive

SpecRx == InitSys /\ [][NextRx]_vars

(***************************************************************************)
(* SpecCapture: the capture path, from initialization through bursts,      *)
(* stop and restart                                                        *)
(***************************************************************************)
\* The faults and the encoder results the capture runs are explored with.
CapFaults == {"none", "captureStream", "join"}

CapEncodedSizes == {0 - 1, 40}

CapInitialize == steps < MaxInitSteps /\ NativeInitialize(CapFaults, {U32(0, 1)})

CapStartCapture == steps < MaxCapSteps /\ NativeStartCapture

CapStopCapture == steps < MaxCapSteps /\ NativeStopCapture

CapAudioReady ==
    steps < MaxCapSteps /\ micNext <= MaxSamples /\ CaptureAudioReady(CapEncodedSizes)

NextCapture == CapInitialize \/ CapStartCapture \/ CapStopCapture \/ CapAudioReady

SpecCapture == InitSys /\ [][NextCapture]_vars

(***************************************************************************)
(* SpecPlayback: the playback path                                         *)
(***************************************************************************)
PbInitialize == steps < MaxInitSteps /\ NativeInitialize(InitFaults, LocalSsrcs)

PbStartPlayback == steps < MaxPbSteps /\ NativeStartPlayback

PbStopPlayback == steps < MaxPbSteps /\ NativeStopPlayback

PbEnqueue == steps < MaxPbSteps /\ NativeEnqueueAudio

PbAudioReady == steps < MaxPbSteps /\ PlaybackAudioReady

PbCleanup == steps < MaxPbSteps /\ NativeCleanup

NextPlayback ==
    PbInitialize \/ PbStartPlayback \/ PbStopPlayback \/ PbEnqueue \/ PbAudioReady \/ PbCleanup

SpecPlayback == InitSys /\ [][NextPlayback]_vars

(***************************************************************************)
(* SpecPipeline: a playing session receiving an in-order stream, with one  *)
(* playback callback after every arrival                                   *)
(***************************************************************************)
\* The next datagram of the remote talker.
PipeEvents ==
    {[timeout |-> FALSE, seq |-> (rtp.packetsReceived_ + 1) % SEQ_MOD, from |-> U32(0, 2),
      received |-> RTP_HEADER_SIZE + 28]}

PipeInitialize == steps < MaxInitSteps /\ NativeInitialize({"none"}, {U32(0, 1)})

PipeStartPlayback ==
    steps < MaxPipeSteps /\ g_audioEngine /\ ~eng.isPlaying_ /\ NativeStartPlayback

PipeReceive ==
    /\ steps < MaxPipeSteps
    /\ g_audioEngine /\ eng.isPlaying_
    /\ last.op # "receiveLoopPass"
    /\ ReceiveLoopPass(PipeEvents)

PipeAudioReady ==
    /\ steps < MaxPipeSteps
    /\ last.op \in {"nativeStartPlayback", "receiveLoopPass"}
    /\ PlaybackAudioReady

NextPipeline == PipeInitialize \/ PipeStartPlayback \/ PipeReceive \/ PipeAudioReady

SpecPipeline == InitSys /\ [][NextPipeline]_vars

(***************************************************************************)
(* The engine's functions as step programs: each function is the sequence  *)
(* of its lock acquisitions and releases, flag stores, device and socket   *)
(* calls, and the code between them, in source order                       *)
(***************************************************************************)
Lock(m) == [do |-> "lock", on |-> m]

Unlock(m) == [do |-> "unlock", on |-> m]

Call(f) == [do |-> "call", on |-> f]

Io(f) == [do |-> "io", on |-> f]

Test(c) == [do |-> "if", on |-> c]

Store(a) == [do |-> "store", on |-> a]

\* A mutation of StartCaptureProgram: the flag is stored first.
StartCaptureProgram_FlagFirst ==
    <<Lock("codecMutex_"), Store("isCapturing_.store(true)"), Call("opusEncoder_->reset"),
      Lock("pcmBufferMutex_"), Call("pcmBuffer_.clear"), Unlock("pcmBufferMutex_"),
      Io("captureStream_->requestStart"), Unlock("codecMutex_")>>

\* A mutation of CaptureProgram: pcmBufferMutex_ is kept while codecMutex_
\* is taken, and released at the end.
CaptureProgram_NestedLocks ==
    <<Lock("pcmBufferMutex_"), Call("pcmBuffer_.push_back"),
      Test("needEncode"),
      Lock("codecMutex_"), Call("opusEncoder_->encode"),
      Io("sendto multicast"),
      Lock("unicastMutex_"), Test("unicastPeers_"), Io("sendto peers"),
      Unlock("unicastMutex_"),
      Call("timestamp_.fetch_add"),
      Lock("statsMutex_"), Call("stats_.framesEncoded++"), Unlock("statsMutex_"),
      Unlock("codecMutex_"), Unlock("pcmBufferMutex_")>>

\* startCapture() past its two early returns.  codecLock lives to the end of
\* the function.
StartCaptureProgram ==
    <<Lock("codecMutex_"), Call("opusEncoder_->reset"),
      Lock("pcmBufferMutex_"), Call("pcmBuffer_.clear"), Unlock("pcmBufferMutex_"),
      Io("captureStream_->requestStart"), Store("isCapturing_.store(true)"),
      Unlock("codecMutex_")>>

\* stopCapture() past its early return; stop, close and reset of the stream
\* are one device step.
StopCaptureProgram == <<Store("isCapturing_.store(false)"), Io("captureStream_->stop")>>

\* A mutation of StartPlaybackProgram: the decoder is reset without
\* codecMutex_.
StartPlaybackProgram_NoCodecLock ==
    <<Call("opusDecoder_->reset"),
      Test("jitterBuffer_"),
      Lock("jitterBuffer_->mutex_"), Call("jitterBuffer_->reset"),
      Unlock("jitterBuffer_->mutex_"),
      Io("playbackStream_->requestStart"), Store("isPlaying_.store(true)")>>

\* startPlayback() past its two early returns, with resetJitterBuffer and the
\* RtpJitterBuffer::reset it calls.
StartPlaybackProgram ==
    <<Lock("codecMutex_"), Call("opusDecoder_->reset"),
      Test("jitterBuffer_"), Lock("jitterBuffer_->mutex_"), Call("jitterBuffer_->reset"),
      Unlock("jitterBuffer_->mutex_"),
      Io("playbackStream_->requestStart"), Store("isPlaying_.store(true)"),
      Unlock("codecMutex_")>>

\* stopPlayback() past its early return.
StopPlaybackProgram == <<Store("isPlaying_.store(false)"), Io("playbackStream_->stop")>>

\* PlaybackCallback::enqueueAudio, with RtpJitterBuffer::enqueue of a packet
\* whose size passes the size check.
EnqueueAudioProgram ==
    <<Test("!jitterBuffer_"), Call("std::make_unique<RtpJitterBuffer>"),
      Lock("jitterBuffer_->mutex_"), Call("jitterBuffer_->enqueue"),
      Unlock("jitterBuffer_->mutex_")>>

\* CaptureCallback::onAudioReady past the isCapturing_ check, with
\* PttAudioCallback::onAudioData, sendAudio and sendToAll.
CaptureProgram ==
    <<Lock("pcmBufferMutex_"), Call("pcmBuffer_.push_back"), Unlock("pcmBufferMutex_"),
      Test("needEncode"),
      Lock("codecMutex_"), Call("opusEncoder_->encode"),
      Io("sendto multicast"),
      Lock("unicastMutex_"), Test("unicastPeers_"), Io("sendto peers"),
      Unlock("unicastMutex_"),
      Call("timestamp_.fetch_add"),
      Lock("statsMutex_"), Call("stats_.framesEncoded++"), Unlock("statsMutex_"),
      Unlock("codecMutex_")>>

\* PlaybackCallback::onAudioReady past the isPlaying_ check, with
\* RtpJitterBuffer::dequeue.
PlaybackProgram ==
    <<Lock("bufferMutex_"), Test("running low"),
      Lock("jitterBuffer_->mutex_"), Call("jitterBuffer_->dequeue"),
      Unlock("jitterBuffer_->mutex_"),
      Test("dequeued"),
      Lock("codecMutex_"), Call("opusDecoder_->decode"),
      Lock("statsMutex_"), Call("stats_.framesDecoded++"), Unlock("statsMutex_"),
      Unlock("codecMutex_"),
      Call("copy to output"), Unlock("bufferMutex_")>>

\* nativeCleanup in its two halves: the engine is stopped and destroyed,
\* then the packetizer is stopped and destroyed.
CleanupProgram == <<Call("g_audioEngine.reset"), Call("g_packetizer.reset")>>

\* nativeInitialize from AudioEngine::initialize on, when nothing fails: the
\* codec instances and the streams are created and the statistics reset
\* under codecMutex_, then the packetizer is created and started.
InitializeProgram ==
    <<Lock("codecMutex_"),
      Call("OpusCodecFactory::createEncoder"), Call("OpusCodecFactory::createDecoder"),
      Io("createCaptureStream"), Io("createPlaybackStream"),
      Lock("statsMutex_"), Call("stats_ = CodecStats{}"), Unlock("statsMutex_"),
      Unlock("codecMutex_"),
      Call("g_packetizer->startReceiveLoop")>>

\* RtpPacketizer::addUnicastPeer and clearUnicastPeers.
AddUnicastPeerProgram ==
    <<Lock("unicastMutex_"), Call("unicastPeers_.push_back"), Unlock("unicastMutex_")>>

ClearUnicastPeersProgram ==
    <<Lock("unicastMutex_"), Call("unicastPeers_.clear"), Unlock("unicastMutex_")>>

Program(fn) ==
    CASE fn = "startCapture" -> StartCaptureProgram
      [] fn = "nativeCleanup" -> CleanupProgram
      [] fn = "nativeInitialize" -> InitializeProgram
      [] fn = "addUnicastPeer" -> AddUnicastPeerProgram
      [] fn = "clearUnicastPeers" -> ClearUnicastPeersProgram
      [] fn = "stopCapture" -> StopCaptureProgram
      [] fn = "startPlayback" -> StartPlaybackProgram
      [] fn = "stopPlayback" -> StopPlaybackProgram
      [] fn = "enqueueAudio" -> EnqueueAudioProgram
      [] fn = "CaptureCallback::onAudioReady" -> CaptureProgram
      [] fn = "PlaybackCallback::onAudioReady" -> PlaybackProgram
      [] OTHER -> <<>>

\* Where thread t is, the step it executes next, and the mutexes it holds.
At(e, t) ==
    IF t = "host" THEN e.hostAt_
    ELSE IF t = "capture" THEN e.captureAt_
    ELSE IF t = "playback" THEN e.playbackAt_
    ELSE e.receiveAt_

Running(e, t) == At(e, t).fn # "none"

StepAt(e, t) == Program(At(e, t).fn)[At(e, t).pc]

Held(e, t) == {l \in Locks : e.locks_[l] = t}

\* Thread t continues at step pc of its function, or returns when the
\* function has no such step.
To(e, t, pc) ==
    LET a == IF pc > Len(Program(At(e, t).fn)) THEN Idle
             ELSE [fn |-> At(e, t).fn, pc |-> pc]
    IN  IF t = "host" THEN [e EXCEPT !.hostAt_ = a]
        ELSE IF t = "capture" THEN [e EXCEPT !.captureAt_ = a]
        ELSE IF t = "playback" THEN [e EXCEPT !.playbackAt_ = a]
        ELSE [e EXCEPT !.receiveAt_ = a]

Onward(e, t) == To(e, t, At(e, t).pc + 1)

\* Thread t leaves the enclosing blocks and continues at the given step.
SkipTo(e, t, step) ==
    To(e, t, CHOOSE i \in 1..Len(Program(At(e, t).fn)) : Program(At(e, t).fn)[i] = step)

\* std::lock_guard's constructor and destructor.
Acquire(e, t) == Onward([e EXCEPT !.locks_[StepAt(e, t).on] = t], t)

Release(e, t) == Onward([e EXCEPT !.locks_[StepAt(e, t).on] = "none"], t)

\* A thread at a lock step waits while another thread holds the mutex.
CanStep(e, t) ==
    /\ Running(e, t)
    /\ StepAt(e, t).do = "lock" => e.locks_[StepAt(e, t).on] = "none"

\* One step of PlaybackCallback::enqueueAudio run by thread t with a packet
\* of contents id.  The jitter buffer that make_unique builds takes the place
\* of the one jitterBuffer_ pointed at, and its mutex is a new, free one.
EnqueueStep(e, pb, t, id) ==
    LET st == StepAt(e, t)
    IN  CASE st.do = "lock" -> [eng |-> Acquire(e, t), pb |-> pb]
          [] st.do = "unlock" -> [eng |-> Release(e, t), pb |-> pb]
          [] st.on = "!jitterBuffer_" ->
               [eng |-> IF pb = <<>> THEN Onward(e, t)
                        ELSE SkipTo(e, t, Lock("jitterBuffer_->mutex_")),
                pb |-> pb]
          [] st.on = "std::make_unique<RtpJitterBuffer>" ->
               [eng |-> Onward([e EXCEPT !.locks_["jitterBuffer_->mutex_"] = "none"], t),
                pb |-> <<NewJitterBuffer>>]
          [] st.on = "jitterBuffer_->enqueue" ->
               [eng |-> Onward(e, t),
                pb |-> EnqueueAudio(pb, OpusPayload(id), RTP_HEADER_SIZE + 28)]

\* One step of a control-plane call: startOk is the outcome of requestStart,
\* id the contents of the packet handed to enqueueAudio.
HostStep(e, pb, startOk, id) ==
    LET st == StepAt(e, "host")
    IN  CASE e.hostAt_.fn = "enqueueAudio" -> EnqueueStep(e, pb, "host", id)
          [] st.do = "lock" -> [eng |-> Acquire(e, "host"), pb |-> pb]
          [] st.do = "unlock" -> [eng |-> Release(e, "host"), pb |-> pb]
          [] st.on = "opusEncoder_->reset" ->
               [eng |-> Onward([e EXCEPT !.encoderFrames_ = IF e.opusEncoder_ THEN 0 ELSE @],
                               "host"),
                pb |-> pb]
          [] st.on = "pcmBuffer_.clear" ->
               [eng |-> Onward([e EXCEPT !.pcmBuffer_ = ClearedPcmBuffer(@)], "host"), pb |-> pb]
          [] st.on = "captureStream_->requestStart" ->
               [eng |-> IF startOk /\ e.captureStream_ # "closed"
                        THEN Onward([e EXCEPT !.captureStream_ = "started"], "host")
                        ELSE SkipTo([e EXCEPT !.captureStream_ = "none"], "host",
                                    Unlock("codecMutex_")),
                pb |-> pb]
          [] st.on = "isCapturing_.store(true)" ->
               [eng |-> Onward([e EXCEPT !.isCapturing_ = TRUE], "host"), pb |-> pb]
          [] st.on = "isCapturing_.store(false)" ->
               [eng |-> Onward([e EXCEPT !.isCapturing_ = FALSE], "host"), pb |-> pb]
          [] st.on = "captureStream_->stop" ->
               [eng |-> Onward([e EXCEPT !.captureStream_ = "none"], "host"), pb |-> pb]
          [] st.on = "opusDecoder_->reset" ->
               [eng |-> Onward([e EXCEPT !.decoderFrames_ = IF e.opusDecoder_ THEN 0 ELSE @],
                               "host"),
                pb |-> pb]
          [] st.on = "jitterBuffer_" ->
               [eng |-> IF pb # <<>> THEN Onward(e, "host")
                        ELSE SkipTo(e, "host", Io("playbackStream_->requestStart")),
                pb |-> pb]
          [] st.on = "jitterBuffer_->reset" ->
               [eng |-> Onward(e, "host"), pb |-> ResetJitterBuffer(pb)]
          [] st.on = "playbackStream_->requestStart" ->
               [eng |-> IF startOk /\ e.playbackStream_ # "closed"
                        THEN Onward([e EXCEPT !.playbackStream_ = "started"], "host")
                        ELSE SkipTo([e EXCEPT !.playbackStream_ = "none"], "host",
                                    Unlock("codecMutex_")),
                pb |-> pb]
          [] st.on = "isPlaying_.store(true)" ->
               [eng |-> Onward([e EXCEPT !.isPlaying_ = TRUE], "host"), pb |-> pb]
          [] st.on = "isPlaying_.store(false)" ->
               [eng |-> Onward([e EXCEPT !.isPlaying_ = FALSE], "host"), pb |-> pb]
          [] st.on = "playbackStream_->stop" ->
               [eng |-> Onward([e EXCEPT !.playbackStream_ = "none"], "host"), pb |-> pb]

\* Whether a control-plane call gets past its early returns.
HostEnters(e, fn) ==
    CASE fn = "startCapture" -> ~e.isCapturing_ /\ e.captureStream_ # "none"
      [] fn = "stopCapture" -> e.isCapturing_
      [] fn = "startPlayback" -> ~e.isPlaying_ /\ e.playbackStream_ # "none"
      [] fn = "stopPlayback" -> e.isPlaying_
      [] fn = "enqueueAudio" -> TRUE
      [] fn = "nativeCleanup" -> TRUE

\* A mutation of CaptureEntry: the callback goes on whatever the flag says.
CaptureEntry_IgnoresFlag(e) == 1

\* The isCapturing_ check of CaptureCallback::onAudioReady: the step the
\* callback goes on with, 0 when it returns at once.
CaptureEntry(e) == IF e.isCapturing_ THEN 1 ELSE 0

\* The isPlaying_ check of PlaybackCallback::onAudioReady.
PlaybackEntry(e) == IF e.isPlaying_ THEN 1 ELSE 0

\* The receive callback set in nativeInitialize: it calls
\* enqueueReceivedAudio, and so enqueueAudio, when the engine exists and is
\* playing; exists tells whether g_audioEngine is set.
ReceiveEntry(e, exists) == IF exists /\ e.isPlaying_ THEN 1 ELSE 0

\* One step of a capture callback in progress: p is the packetizer, exists
\* tells whether g_packetizer is set, encodedBytes is the value encode
\* returns, mcOk and okPeers the outcomes of the sendto calls.
CaptureStep(e, p, exists, encodedBytes, mcOk, okPeers) ==
    LET st == StepAt(e, "capture")
        loc == e.captureLocal_
    IN  CASE st.do = "lock" -> [eng |-> Acquire(e, "capture"), rtp |-> p]
          [] st.do = "unlock" -> [eng |-> Release(e, "capture"), rtp |-> p]
          [] st.on = "pcmBuffer_.push_back" ->
               LET a == Accumulate(e.pcmBuffer_, loc.input)
               IN  [eng |-> Onward([e EXCEPT !.pcmBuffer_ = a.pcmBuffer_,
                                             !.captureLocal_.needEncode = a.needEncode,
                                             !.captureLocal_.frameBuffer = a.frameBuffer],
                                   "capture"),
                    rtp |-> p]
          [] st.on = "needEncode" ->
               [eng |-> IF loc.needEncode THEN Onward(e, "capture")
                        ELSE To(e, "capture", Len(CaptureProgram) + 1),
                rtp |-> p]
          [] st.on = "opusEncoder_->encode" ->
               IF ~e.opusEncoder_
               THEN [eng |-> SkipTo(e, "capture", Unlock("codecMutex_")), rtp |-> p]
               ELSE LET e1 == [e EXCEPT !.encoderFrames_ = @ + 1,
                                        !.captureLocal_.encodedBytes = encodedBytes]
                    IN  IF ~(encodedBytes > 0 /\ e.callback_)
                        THEN [eng |-> SkipTo(e1, "capture", Unlock("codecMutex_")), rtp |-> p]
                        ELSE IF ~exists \/ ~p.isRunning_ \/ p.socket_ < 0
                        THEN [eng |-> SkipTo(e1, "capture", Lock("statsMutex_")), rtp |-> p]
                        ELSE [eng |-> IF p.multicastJoined_
                                         /\ p.transportMode_ \in {"MULTICAST", "AUTO"}
                                      THEN Onward(e1, "capture")
                                      ELSE SkipTo(e1, "capture", Lock("unicastMutex_")),
                              rtp |-> [p EXCEPT !.sequence_ = NextSequence(@)]]
          [] st.on = "sendto multicast" ->
               [eng |-> Onward([e EXCEPT !.captureLocal_.anySent = mcOk], "capture"), rtp |-> p]
          [] st.on = "unicastPeers_" ->
               [eng |-> IF p.unicastPeers_ # <<>> THEN Onward(e, "capture")
                        ELSE SkipTo(e, "capture", Unlock("unicastMutex_")),
                rtp |-> p]
          [] st.on = "sendto peers" ->
               [eng |-> Onward([e EXCEPT !.captureLocal_.anySent =
                                   @ \/ \E i \in 1..Len(p.unicastPeers_) :
                                            p.unicastPeers_[i] \in okPeers],
                               "capture"),
                rtp |-> p]
          [] st.on = "timestamp_.fetch_add" ->
               [eng |-> Onward(e, "capture"),
                rtp |-> IF loc.anySent
                        THEN [p EXCEPT !.timestamp_ = U32Add(@, p.samplesPerFrame_),
                                       !.packetsSent_ = @ + 1]
                        ELSE p]
          [] st.on = "stats_.framesEncoded++" ->
               [eng |-> Onward([e EXCEPT !.stats_ = StatsAfterEncode(@, loc.encodedBytes)],
                               "capture"),
                rtp |-> p]

\* One step of a playback callback in progress: decoded is the value decode
\* returns, concealed the value decodePLC returns.
PlaybackStep(e, pb, decoded, concealed) ==
    LET st == StepAt(e, "playback")
        loc == e.playbackLocal_
    IN  CASE st.do = "lock" -> [eng |-> Acquire(e, "playback"), pb |-> pb]
          [] st.do = "unlock" -> [eng |-> Release(e, "playback"), pb |-> pb]
          [] st.on = "running low" ->
               [eng |-> IF RunningLow(e.outputBufferPos_, Len(e.outputBuffer_), loc.numFrames)
                           /\ pb # <<>>
                        THEN Onward(e, "playback")
                        ELSE SkipTo(e, "playback", Call("copy to output")),
                pb |-> pb]
          [] st.on = "jitterBuffer_->dequeue" ->
               LET r == JbDequeue(pb[1])
               IN  [eng |-> Onward([e EXCEPT !.playbackLocal_.got = r.ok /\ r.size > 0,
                                             !.playbackLocal_.opusPacket = r.data,
                                             !.playbackLocal_.packetSize = r.size],
                                   "playback"),
                    pb |-> <<r.jb>>]
          [] st.on = "dequeued" ->
               [eng |-> IF loc.got THEN Onward(e, "playback")
                        ELSE SkipTo(e, "playback", Call("copy to output")),
                pb |-> pb]
          [] st.on = "opusDecoder_->decode" ->
               [eng |-> IF ~e.opusDecoder_
                        THEN SkipTo(e, "playback", Unlock("codecMutex_"))
                        ELSE IF decoded > 0
                        THEN Onward([e EXCEPT !.decoderFrames_ = @ + 1,
                                              !.outputBuffer_ =
                                                  @ \o DecodedPcm(loc.opusPacket, decoded)],
                                    "playback")
                        ELSE SkipTo([e EXCEPT !.decoderFrames_ = @ + 1,
                                              !.outputBuffer_ =
                                                  IF concealed > 0
                                                  THEN @ \o ConcealedPcm(concealed) ELSE @],
                                    "playback", Unlock("codecMutex_")),
                pb |-> pb]
          [] st.on = "stats_.framesDecoded++" ->
               [eng |-> Onward([e EXCEPT !.stats_.framesDecoded = @ + 1], "playback"),
                pb |-> pb]
          [] st.on = "copy to output" ->
               [eng |-> Onward(PlaybackFill(e, <<>>, loc.numFrames, 0, 0).eng, "playback"),
                pb |-> pb]

(***************************************************************************)
(* SpecLocks: the control-plane calls and the two audio callbacks running  *)
(* as three threads, interleaved step by step                              *)
(***************************************************************************)
HostCalls == {"startCapture", "stopCapture", "startPlayback", "stopPlayback", "enqueueAudio"}

LkRest == <<jbVars, g_packetizer, g_audioEngine, hdrPrev, hdrLast, hdrCount, captured, emitted>>

LkInitialize == steps < MaxInitSteps /\ NativeInitialize({"none"}, {U32(0, 1)})

\* The host enters nativeStartCapture, nativeStopCapture, nativeStartPlayback,
\* nativeStopPlayback or nativeEnqueueAudio.
LkHostCall ==
    \E fn \in HostCalls :
        /\ steps < MaxLockSteps
        /\ g_audioEngine
        /\ ~Running(eng, "host")
        /\ eng' = IF HostEnters(eng, fn) THEN [eng EXCEPT !.hostAt_ = [fn |-> fn, pc |-> 1]]
                  ELSE eng
        /\ Hist([op |-> fn, entered |-> HostEnters(eng, fn)])
        /\ UNCHANGED <<LkRest, rtp, pbJitterBuffer_, micNext>>

LkHostStep ==
    \E startOk \in BOOLEAN :
        /\ g_audioEngine
        /\ CanStep(eng, "host")
        /\ eng' = HostStep(eng, pbJitterBuffer_, startOk, 1).eng
        /\ pbJitterBuffer_' = HostStep(eng, pbJitterBuffer_, startOk, 1).pb
        /\ UNCHANGED <<LkRest, rtp, micNext, steps, last, prev>>

\* The capture stream calls CaptureCallback::onAudioReady.
LkCaptureBegin ==
    \E numFrames \in BurstSizes :
        /\ steps < MaxLockSteps
        /\ g_audioEngine
        /\ eng.captureStream_ = "started"
        /\ ~Running(eng, "capture")
        /\ eng' = IF CaptureEntry(eng) = 0 THEN eng
                  ELSE [eng EXCEPT !.captureAt_ = [fn |-> "CaptureCallback::onAudioReady",
                                                   pc |-> CaptureEntry(eng)],
                                   !.captureLocal_ =
                                       [NoCaptureLocal EXCEPT
                                           !.input = Burst(micNext, numFrames)]]
        /\ micNext' = micNext + numFrames
        /\ Hist([op |-> "CaptureCallback::onAudioReady", numFrames |-> numFrames,
                 capturing |-> eng.isCapturing_])
        /\ UNCHANGED <<LkRest, rtp, pbJitterBuffer_>>

LkCaptureStep ==
    \E encodedBytes \in {40}, mcOk \in {TRUE} :
        /\ g_audioEngine
        /\ CanStep(eng, "capture")
        /\ eng' = CaptureStep(eng, rtp, g_packetizer, encodedBytes, mcOk, {}).eng
        /\ rtp' = CaptureStep(eng, rtp, g_packetizer, encodedBytes, mcOk, {}).rtp
        /\ UNCHANGED <<LkRest, pbJitterBuffer_, micNext, steps, last, prev>>

\* The playback stream calls PlaybackCallback::onAudioReady.
LkPlaybackBegin ==
    /\ steps < MaxLockSteps
    /\ g_audioEngine
    /\ eng.playbackStream_ = "started"
    /\ ~Running(eng, "playback")
    /\ eng' = IF PlaybackEntry(eng) = 0 THEN eng
              ELSE [eng EXCEPT !.playbackAt_ = [fn |-> "PlaybackCallback::onAudioReady",
                                                pc |-> PlaybackEntry(eng)],
                               !.playbackLocal_ =
                                   [NoPlaybackLocal EXCEPT !.numFrames = kFramesPerBurst]]
    /\ Hist([op |-> "PlaybackCallback::onAudioReady", playing |-> eng.isPlaying_])
    /\ UNCHANGED <<LkRest, rtp, pbJitterBuffer_, micNext>>

LkPlaybackStep ==
    \E decoded \in {OPUS_FRAME_SIZE}, concealed \in {OPUS_FRAME_SIZE} :
        /\ g_audioEngine
        /\ CanStep(eng, "playback")
        /\ eng' = PlaybackStep(eng, pbJitterBuffer_, decoded, concealed).eng
        /\ pbJitterBuffer_' = PlaybackStep(eng, pbJitterBuffer_, decoded, concealed).pb
        /\ UNCHANGED <<LkRest, rtp, micNext, steps, last, prev>>

NextLocks ==
    \/ LkInitialize \/ LkHostCall \/ LkHostStep
    \/ LkCaptureBegin \/ LkCaptureStep \/ LkPlaybackBegin \/ LkPlaybackStep

SpecLocks == InitSys /\ [][NextLocks]_vars

(***************************************************************************)
(* SpecEnqueue: the two callers of PlaybackCallback::enqueueAudio, the     *)
(* host in nativeEnqueueAudio and the receive thread in the receive        *)
(* callback, step by step beside startPlayback, stopPlayback and the       *)
(* playback callback.                                                      *)
(***************************************************************************)
EqInitialize == steps < MaxInitSteps /\ NativeInitialize({"none"}, {U32(0, 1)})

\* The host enters nativeStartPlayback, nativeStopPlayback,
\* nativeEnqueueAudio or nativeCleanup.
EqHostCall ==
    \E fn \in {"startPlayback", "stopPlayback", "enqueueAudio", "nativeCleanup"} :
        /\ steps < MaxEqSteps
        /\ g_audioEngine
        /\ ~Running(eng, "host")
        /\ eng' = IF HostEnters(eng, fn) THEN [eng EXCEPT !.hostAt_ = [fn |-> fn, pc |-> 1]]
                  ELSE eng
        /\ Hist([op |-> fn, entered |-> HostEnters(eng, fn)])
        /\ UNCHANGED <<LkRest, rtp, pbJitterBuffer_, micNext>>

\* receiveLoop has a datagram of another sender and calls audioCallback_.
EqReceiveBegin ==
    /\ steps < MaxEqSteps
    /\ g_packetizer
    /\ rtp.audioCallback_
    /\ rtp.receiveThread_ = "joinable"
    /\ ~Running(eng, "receive")
    /\ eng' = IF ReceiveEntry(eng, g_audioEngine) = 0 THEN eng
              ELSE [eng EXCEPT !.receiveAt_ = [fn |-> "enqueueAudio",
                                               pc |-> ReceiveEntry(eng, g_audioEngine)]]
    /\ Hist([op |-> "audioCallback_", forwarded |-> ReceiveEntry(eng, g_audioEngine) # 0])
    /\ UNCHANGED <<LkRest, rtp, pbJitterBuffer_, micNext>>

EqReceiveStep ==
    /\ CanStep(eng, "receive")
    /\ eng' = EnqueueStep(eng, pbJitterBuffer_, "receive", 2).eng
    /\ pbJitterBuffer_' = EnqueueStep(eng, pbJitterBuffer_, "receive", 2).pb
    /\ UNCHANGED <<LkRest, rtp, micNext, steps, last, prev>>

EqHostStep == eng.hostAt_.fn \in HostCalls /\ LkHostStep

\* One half of nativeCleanup.  The engine goes with its playback callback
\* and jitter buffer; a thread that is inside the engine stays where it is.
\* joined tells whether the receive thread ended within the wait of
\* stopReceiveLoop, which it can only do once the callback has returned.
EqCleanupStep ==
    \E joined \in BOOLEAN :
        /\ eng.hostAt_.fn = "nativeCleanup"
        /\ IF eng.hostAt_.pc = 1
           THEN /\ g_audioEngine' = FALSE
                /\ eng' = Onward(EngineDestroy(eng), "host")
                /\ pbJitterBuffer_' = <<>>
                /\ UNCHANGED <<g_packetizer, rtp>>
           ELSE /\ joined => ~Running(eng, "receive")
                /\ g_packetizer' = FALSE
                /\ rtp' = IF g_packetizer THEN RtpDestroy(rtp, joined) ELSE rtp
                /\ eng' = Onward(eng, "host")
                /\ UNCHANGED <<g_audioEngine, pbJitterBuffer_>>
        /\ UNCHANGED <<jbVars, hdrPrev, hdrLast, hdrCount, captured, emitted,
                       micNext, steps, last, prev>>

NextEnqueue ==
    \/ EqInitialize \/ EqHostCall \/ EqHostStep \/ EqCleanupStep
    \/ EqReceiveBegin \/ EqReceiveStep \/ LkPlaybackBegin \/ LkPlaybackStep

SpecEnqueue == InitSys /\ [][NextEnqueue]_vars

(***************************************************************************)
(* SpecThreads: every thread step by step.  The host runs nativeInitialize,*)
(* the start and stop calls, nativeEnqueueAudio, the peer calls and        *)
(* nativeCleanup; beside it run the capture callback, the playback         *)
(* callback and the receive thread's callback.                             *)
(***************************************************************************)
\* One step of nativeInitialize or of a peer call: p is the packetizer, ip
\* the peer address.
PacketizerStep(e, p, ip) ==
    LET st == StepAt(e, "host")
    IN  CASE st.do = "lock" -> [eng |-> Acquire(e, "host"), rtp |-> p, made |-> FALSE]
          [] st.do = "unlock" -> [eng |-> Release(e, "host"), rtp |-> p, made |-> FALSE]
          [] st.on = "OpusCodecFactory::createEncoder" ->
               [eng |-> Onward([e EXCEPT !.opusEncoder_ = TRUE], "host"), rtp |-> p,
                made |-> FALSE]
          [] st.on = "OpusCodecFactory::createDecoder" ->
               [eng |-> Onward([e EXCEPT !.opusDecoder_ = TRUE], "host"), rtp |-> p,
                made |-> FALSE]
          [] st.on = "createCaptureStream" ->
               [eng |-> Onward([e EXCEPT !.captureStream_ = "open"], "host"), rtp |-> p,
                made |-> FALSE]
          [] st.on = "createPlaybackStream" ->
               [eng |-> Onward([e EXCEPT !.playbackStream_ = "open"], "host"), rtp |-> p,
                made |-> FALSE]
          [] st.on = "stats_ = CodecStats{}" ->
               [eng |-> Onward([e EXCEPT !.stats_ = NewStats], "host"), rtp |-> p,
                made |-> FALSE]
          [] st.on = "g_packetizer->startReceiveLoop" ->
               [eng |-> Onward(e, "host"),
                rtp |-> StartReceiveLoop(RtpStart(
                            [RtpInitialize(NewPacketizer(U32(0, 1)), "AUTO", "none").rtp
                                EXCEPT !.audioCallback_ = TRUE])),
                made |-> TRUE]
          [] st.on = "unicastPeers_.push_back" ->
               [eng |-> Onward(e, "host"), rtp |-> AddUnicastPeer(p, ip), made |-> FALSE]
          [] st.on = "unicastPeers_.clear" ->
               [eng |-> Onward(e, "host"), rtp |-> ClearUnicastPeers(p), made |-> FALSE]

ThreadCalls == HostCalls \cup {"addUnicastPeer", "clearUnicastPeers", "nativeCleanup"}

\* The host enters nativeInitialize for the first time: the engine is
\* constructed and g_audioEngine set, and initialize stores the callback.
ThInitialize ==
    /\ steps < MaxInitSteps
    /\ ~g_audioEngine
    /\ ~g_packetizer
    /\ ~Running(eng, "host")
    /\ g_audioEngine' = TRUE
    /\ eng' = [NewAudioEngine EXCEPT !.callback_ = TRUE, !.bitrate_ = OPUS_BITRATE,
                                     !.hostAt_ = [fn |-> "nativeInitialize", pc |-> 1]]
    /\ pbJitterBuffer_' = <<>>
    /\ Hist([op |-> "nativeInitialize", entered |-> TRUE])
    /\ UNCHANGED <<jbVars, g_packetizer, rtp, micNext, hdrPrev, hdrLast, hdrCount,
                   captured, emitted>>

\* The host enters one of the other native calls; the peer calls return at
\* once without a packetizer.
ThHostCall ==
    \E fn \in ThreadCalls :
        LET entered == IF fn \in {"addUnicastPeer", "clearUnicastPeers"} THEN g_packetizer
                       ELSE HostEnters(eng, fn)
        IN  /\ steps < MaxThreadSteps
            /\ g_audioEngine
            /\ ~Running(eng, "host")
            /\ eng' = IF entered THEN [eng EXCEPT !.hostAt_ = [fn |-> fn, pc |-> 1]] ELSE eng
            /\ Hist([op |-> fn, entered |-> entered])
            /\ UNCHANGED <<LkRest, rtp, pbJitterBuffer_, micNext>>

ThPacketizerStep ==
    \E ip \in {"10.0.0.2"} :
        /\ eng.hostAt_.fn \in {"nativeInitialize", "addUnicastPeer", "clearUnicastPeers"}
        /\ CanStep(eng, "host")
        /\ eng' = PacketizerStep(eng, rtp, ip).eng
        /\ rtp' = PacketizerStep(eng, rtp, ip).rtp
        /\ g_packetizer' = (g_packetizer \/ PacketizerStep(eng, rtp, ip).made)
        /\ UNCHANGED <<jbVars, g_audioEngine, pbJitterBuffer_, hdrPrev, hdrLast, hdrCount,
                       captured, emitted, micNext, steps, last, prev>>

NextThreads ==
    \/ ThInitialize \/ ThHostCall \/ EqHostStep \/ ThPacketizerStep \/ EqCleanupStep
    \/ LkCaptureBegin \/ LkCaptureStep \/ LkPlaybackBegin \/ LkPlaybackStep
    \/ EqReceiveBegin \/ EqReceiveStep

SpecThreads == InitSys /\ [][NextThreads]_vars

(***************************************************************************)
(* Claims about RtpJitterBuffer                                            *)
(***************************************************************************)
\* Loss added by the sequence check of the last enqueue, the eviction's own
\* increment left out.
GapAdded ==
    jitterBuffer_.packetsLost_ - jbPrev.packetsLost_ - (IF jbLast.full THEN 1 ELSE 0)

\* Packets in arrival order: the payload identities (arrival numbers) increase.
InArrivalOrder(q) ==
    \A i \in 1..Len(q) : \A j \in 1..Len(q) : i < j => q[i].data.body < q[j].data.body

\* C2: for every accepted enqueue with a previous packet enqueued since the
\* last reset, the sequence check adds exactly the wrap-aware gap
\* (received - expected) mod 65536 to the loss counter, whatever the previous
\* sequence number and for every gap size, and nothing when received = expected.
C2_GapLossExact ==
    (jbLast.op = "enqueue" /\ jbLast.accepted /\ jbPrev.packetsReceived_ > 0) =>
        LET expected == (jbPrev.lastSeq_ + 1) % SEQ_MOD
        IN  GapAdded = IF jbLast.seq # expected
                       THEN (jbLast.seq - expected) % SEQ_MOD
                       ELSE 0

\* C3: an enqueue that finds the buffer full discards exactly the oldest
\* unconsumed packet, stores the new one, and adds exactly one to the loss
\* counter for the eviction (on top of the sequence check's own addition);
\* what remains is returned by dequeue in arrival order.
C3_FullEvictsOldest ==
    (jbLast.op = "enqueue" /\ jbLast.full) =>
        /\ Drain(jbPrev) # <<>>
        /\ Drain(jitterBuffer_) =
               Tail(Drain(jbPrev)) \o <<[data |-> jbLast.data, size |-> jbLast.size]>>
        /\ InArrivalOrder(Drain(jitterBuffer_))
        /\ jitterBuffer_.packetsLost_ =
               jbPrev.packetsLost_ + JbSeqGapLoss(jbPrev, jbLast.seq) + 1

\* C3 witness: an eviction from a ring whose head had already moved, with a
\* sequence gap counted in the same call.
C3_Witness ==
    /\ jbLast.op = "enqueue" /\ jbLast.full
    /\ jbPrev.head_ > 0
    /\ JbSeqGapLoss(jbPrev, jbLast.seq) > 0

\* C4: the capacity is 50 packets: the buffer never holds more than 50 and an
\* enqueue evicts only when 50 packets are held, so the first 50 enqueues
\* into an empty buffer are all retained.
C4_Capacity50 ==
    /\ getCurrentSize(jitterBuffer_) <= BUFFER_SIZE
    /\ (jbLast.op = "enqueue" /\ jbLast.full) => getCurrentSize(jbPrev) = BUFFER_SIZE

C6_ResetClears ==
    /\ jbLast.op = "reset" =>
          /\ ~JbDequeue(jitterBuffer_).ok
          /\ getCurrentSize(jitterBuffer_) = 0
          /\ jitterBuffer_.packetsReceived_ = 0
          /\ jitterBuffer_.packetsLost_ = 0
          /\ \A seq \in GapSeqs :
                JbEnqueue(jitterBuffer_, Datagram(seq, U32(0, 1), 0), RTP_HEADER_SIZE).packetsLost_ = 0
    /\ (jbLast.op = "enqueue" /\ jbLast.accepted /\ jbPrev.packetsReceived_ = 0) =>
          jitterBuffer_.packetsLost_ = 0

\* C6 witness: a reset of a full buffer that had counted losses.
C6_Witness ==
    /\ jbLast.op = "reset"
    /\ getCurrentSize(jbPrev) = BUFFER_SIZE - 1
    /\ jbPrev.packetsLost_ > 0
    /\ jbPrev.lastSeq_ # 0

(***************************************************************************)
(* Claims about RtpPacketizer                                              *)
\* C23: an enqueue or a dequeue never lowers the jitter buffer's loss
\* counter or its received counter; only reset does.
C23_CountersMonotonic ==
    jbLast.op \in {"enqueue", "dequeue"} =>
        /\ jitterBuffer_.packetsLost_ >= jbPrev.packetsLost_
        /\ jitterBuffer_.packetsReceived_ >= jbPrev.packetsReceived_

\* C23 witness: a dequeue returned a packet from a buffer whose loss counter
\* had been raised by sequence gaps, with no reset since construction.
C23_Witness ==
    /\ jbLast.op = "dequeue"
    /\ jbLast.ok
    /\ jbResets = 0
    /\ jbPrev.packetsLost_ > 0
    /\ jitterBuffer_.packetsLost_ = jbPrev.packetsLost_
    /\ jitterBuffer_.packetsReceived_ > 1

(***************************************************************************)
\* The sequence number a packet's header carries, read back from the wire bytes.
HeaderSeq(h) == Ntohs(h.data.seq)

\* C1: between any two consecutive packets sendAudio builds on a running
\* packetizer with an open socket, the header sequence number increases by
\* exactly 1 modulo 65536 (65535 is followed by 0): no gap and no duplicate,
\* whether or not the earlier packet reached a destination.
C1_SequenceStepsByOne ==
    hdrCount >= 2 => HeaderSeq(hdrLast) = (HeaderSeq(hdrPrev) + 1) % SEQ_MOD

\* C1 witness: a packet numbered 65535 that reached no destination was
\* followed by a packet numbered 0.
C1_Witness ==
    /\ hdrCount >= 2
    /\ HeaderSeq(hdrPrev) = SEQ_MOD - 1
    /\ ~hdrPrev.sent
    /\ HeaderSeq(hdrLast) = 0

\* The timestamp a packet's header carries, read back from the wire bytes.
HeaderTimestamp(h) == Ntohl(h.data.timestamp)

\* C14: between any two consecutive headers sendAudio builds, the sequence
\* number increases by 1 modulo 65536 and the timestamp by 960 modulo 2^32.
C14_TimestampInLockstep ==
    hdrCount >= 2 =>
        /\ HeaderSeq(hdrLast) = (HeaderSeq(hdrPrev) + 1) % SEQ_MOD
        /\ HeaderTimestamp(hdrLast) = U32Add(HeaderTimestamp(hdrPrev), SAMPLES_PER_FRAME)

\* C7: a datagram the receive loop reads whose header SSRC equals the
\* session's own SSRC is discarded: neither the packetizer's jitter buffer
\* nor the playback jitter buffer changes, the receive callback is not
\* invoked, and the received-packet counter does not move.
C7_OwnSsrcDiscarded ==
    (last.op = "receiveLoopPass" /\ ~last.timeout /\ last.from = last.local)
        => /\ jitterBuffer_ = prev.jb
           /\ pbJitterBuffer_ = prev.pb
           /\ ~last.called
           /\ rtp.packetsReceived_ = prev.rtp.packetsReceived_

\* C7 witness: while playing, after a remote datagram was enqueued, a
\* datagram longer than the header arrives with the session's own SSRC.
C7_Witness ==
    /\ last.op = "receiveLoopPass"
    /\ ~last.timeout
    /\ last.from = last.local
    /\ last.received > RTP_HEADER_SIZE
    /\ eng.isPlaying_
    /\ rtp.audioCallback_
    /\ jitterBuffer_.packetsReceived_ > 0
    /\ pbJitterBuffer_ # <<>>

\* C11: when initialize in AUTO mode fails to join the multicast group it
\* still returns success with the socket open and the mode UNICAST, and no
\* later operation of the session (send, receive, add or clear peer, start,
\* stop) moves a UNICAST session to another mode.
C11_DemotionIsPermanent ==
    /\ []((last.op = "initialize" /\ last.mode = "AUTO" /\ last.fault = "join")
            => (last.ok /\ rtp.socket_ >= 0 /\ rtp.transportMode_ = "UNICAST"))
    /\ [][(rtp.transportMode_ = "UNICAST" /\ last'.op # "initialize")
            => rtp'.transportMode_ = "UNICAST"]_vars

\* C11 witness: initialize in AUTO mode failed to join, and an operation
\* that followed it left the session in UNICAST mode.
C11_Witness ==
    /\ prev.last.op = "initialize"
    /\ prev.last.mode = "AUTO"
    /\ prev.last.fault = "join"
    /\ last.op \in {"start", "addUnicastPeer", "startReceiveLoop"}
    /\ rtp.transportMode_ = "UNICAST"

\* C12: when initialize in MULTICAST mode fails to join the multicast group
\* it returns failure and leaves no open socket; no later operation opens
\* one, and every sendAudio on a packetizer without a socket returns failure
\* without building a packet.
C12_MulticastJoinFatal ==
    /\ []((last.op = "initialize" /\ last.mode = "MULTICAST" /\ last.fault = "join")
            => (~last.ok /\ rtp.socket_ < 0))
    /\ []((last.op = "sendAudio" /\ prev.rtp.socket_ < 0) => (~last.sent /\ ~last.built))
    /\ [][(rtp.socket_ < 0 /\ last'.op # "initialize") => rtp'.socket_ < 0]_vars

\* C12 witness: after the failed MULTICAST initialization the packetizer
\* was started and sendAudio was called on it, and it returned failure.
C12_Witness ==
    /\ last.op = "sendAudio"
    /\ ~last.sent
    /\ prev.rtp.isRunning_
    /\ prev.rtp.socket_ < 0
    /\ prev.rtp.transportMode_ = "MULTICAST"
    /\ prev.rtp.shutdownPipe_

\* C13: a send makes one sendto to the multicast group if it is joined and
\* one to every peer in the unicast peer list, in order and whatever the
\* earlier ones returned, and sendAudio returns true exactly when at least
\* one of them accepted the datagram.
C13_SendReachesEveryDestination ==
    (last.op = "sendAudio" /\ last.built) =>
        /\ [i \in 1..Len(last.calls) |-> last.calls[i].dest]
             = (IF prev.rtp.multicastJoined_ THEN <<MulticastGroup>> ELSE <<>>)
               \o prev.rtp.unicastPeers_
        /\ last.sent <=> (\E i \in 1..Len(last.calls) : last.calls[i].ok)

\* C13 witness: a send whose sendto to one peer failed, went on to the next
\* peer, which accepted, and returned true.
C13_Witness ==
    /\ last.op = "sendAudio"
    /\ last.built
    /\ last.sent
    /\ \E i \in 1..Len(last.calls) : \E j \in 1..Len(last.calls) :
          /\ i < j
          /\ last.calls[i].dest \in Peers
          /\ ~last.calls[i].ok
          /\ last.calls[j].ok

(***************************************************************************)
(* Claims about the Opus encoder                                           *)
(***************************************************************************)
\* C15: after setBitrate(b) the configured bitrate is min(max(b, 6000), 24000)
\* for every b: 3000 gives 6000, 100000 gives 24000.
C15_BitrateClampedTo24000 ==
    last.op = "setBitrate" => eng.bitrate_ = Min(Max(last.bitrate, 6000), 24000)

(***************************************************************************)
(* Claims about cancelling the receive thread                              *)
(***************************************************************************)
\* C16: once stopReceiveLoop has cleared the flag and written the wake byte,
\* the receive thread begins at most one more wait, performs no recvfrom,
\* enqueue or callback after it has read the wake byte, and eventually
\* leaves its loop.
C16_CancellationObserved ==
    /\ [](last.op = "receiveLoop" => last.waits <= 1)
    /\ [](~(last.op = "receiveLoop" /\ last.at = "recv" /\ last.woken))
    /\ (rtp.joining_ ~> rtp.receiveAt_ = "done")

\* C16 witness: the thread was in its wait when stopReceiveLoop was called,
\* read the wake byte, and has left its loop while the caller waits in the
\* join.
C16_Witness ==
    /\ rtp.joining_
    /\ rtp.receiveAt_ = "done"
    /\ last.op = "receiveLoop"
    /\ last.woken
    /\ last.waits = 1
    /\ rtp.packetsReceived_ > 0

(***************************************************************************)
(* Claims about device errors                                              *)
(***************************************************************************)
\* C17: when the device reports a capture (playback) stream error, the
\* capturing (playing) flag is false afterwards and the error callback has
\* been called once with that error code; and the flag only ever goes from
\* false to true in a start call of the host.
C17_ErrorStopsSession ==
    /\ [](last.op = "captureError" => (~eng.isCapturing_ /\ last.notified = <<last.error>>))
    /\ [](last.op = "playbackError" => (~eng.isPlaying_ /\ last.notified = <<last.error>>))
    /\ [][(~eng.isCapturing_ /\ eng'.isCapturing_) => last'.op = "nativeStartCapture"]_vars
    /\ [][(~eng.isPlaying_ /\ eng'.isPlaying_) => last'.op = "nativeStartPlayback"]_vars

\* C17 witness: a playback error ended a playing session after a capture
\* error had ended a capturing one, and neither has been restarted.
C17_Witness ==
    /\ last.op = "playbackError"
    /\ prev.eng.isPlaying_
    /\ ~eng.isPlaying_
    /\ eng.captureStream_ = "closed"
    /\ ~eng.isCapturing_

(***************************************************************************)
(* Claims about failed initialization                                      *)
(***************************************************************************)
\* C18: when nativeInitialize returns failure (the engine's or the
\* transport's initialize failed, or a step between them), nothing acquired
\* in the attempt is still held: the engine object, if it still exists,
\* holds no codec instance and no device stream, and the packetizer object,
\* if it still exists, holds no socket and no shutdown pipe.
C18_FailedInitReleasesAll ==
    (last.op = "nativeInitialize" /\ ~last.ok) =>
        /\ g_audioEngine =>
              /\ ~eng.opusEncoder_
              /\ ~eng.opusDecoder_
              /\ eng.captureStream_ = "none"
              /\ eng.playbackStream_ = "none"
        /\ g_packetizer =>
              /\ rtp.socket_ < 0
              /\ ~rtp.shutdownPipe_

(***************************************************************************)
(* Claims about the playback queue                                         *)
(***************************************************************************)
\* C19: a payload of any length from 1 byte up, handed to
\* nativeEnqueueAudio while the engine exists, is stored in the playback
\* jitter buffer with its length, from where a later dequeue returns it: it
\* is the newest valid slot right after the call.
C19_EnqueuedPayloadIsKept ==
    (last.op = "nativeEnqueueAudio" /\ last.size >= 1 /\ g_audioEngine) =>
        /\ pbJitterBuffer_ # <<>>
        /\ LET jb == pbJitterBuffer_[1]
               slot == jb.buffer_[(jb.tail_ + BUFFER_SIZE - 1) % BUFFER_SIZE]
           IN  /\ ~jb.isEmpty_
               /\ slot.valid
               /\ slot.size = last.size
               /\ Drain(jb) # <<>>

(***************************************************************************)
(* Claims about the marker bit                                             *)
(***************************************************************************)
\* The marker bit of a packet's header: the top bit of its second byte.
HeaderMarker(h) == (h.data.mpt \div 128) % 2 = 1

\* C20: the packet built by the first capture callback after a successful
\* nativeStartCapture carries the marker bit, and a packet built by a
\* callback that follows another packet of the same session does not.
C20_MarkerOnTalkBurstStart ==
    /\ (last.op = "captureAudioReady" /\ last.built
            /\ prev.last.op = "nativeStartCapture" /\ prev.last.ok)
        => HeaderMarker(hdrLast)
    /\ (last.op = "captureAudioReady" /\ last.built
            /\ prev.last.op = "captureAudioReady" /\ prev.last.built)
        => ~HeaderMarker(hdrLast)

(***************************************************************************)
(* Claims about the capture path                                           *)
(***************************************************************************)
RECURSIVE Flatten(_)
Flatten(frames) == IF frames = <<>> THEN <<>> ELSE Head(frames) \o Flatten(Tail(frames))

\* C8: for bursts no longer than one codec frame, every frame handed to the
\* encoder holds exactly one codec frame of samples, and the frames handed
\* over, concatenated in order and followed by the samples still buffered,
\* are the samples received since the accumulator was last cleared.
C8_AccumulatorConserves ==
    /\ \A i \in 1..Len(emitted) : Len(emitted[i]) = OPUS_FRAME_SIZE
    /\ Flatten(emitted) \o eng.pcmBuffer_ = captured

\* C8 witness: a burst completed the second frame handed over since the
\* accumulator was cleared, and a partial frame is still buffered.
C8_Witness ==
    /\ last.op = "captureAudioReady"
    /\ last.needEncode
    /\ Len(emitted) >= 2
    /\ eng.pcmBuffer_ # <<>>

\* C21: one codec frame is 320 samples: every frame handed to the encoder
\* holds exactly 320 samples, and a capture callback that ran while
\* capturing leaves fewer than 320 samples buffered (a frame is handed over
\* as soon as 320 are there).
C21_FrameIs320Samples ==
    /\ \A i \in 1..Len(emitted) : Len(emitted[i]) = kOpusFrameSize
    /\ (last.op = "captureAudioReady" /\ prev.eng.isCapturing_)
        => Len(eng.pcmBuffer_) < kOpusFrameSize

\* C9: stopping capture while a partial frame is buffered and then starting
\* capture again (the device accepting the start) yields a running capture
\* session whose accumulator holds none of the earlier samples.
C9_RestartIsClean ==
    (/\ last.op = "nativeStartCapture"
     /\ last.startOk
     /\ prev.last.op = "nativeStopCapture"
     /\ prev.last.wasCapturing
     /\ prev.last.buffered > 0)
        => (eng.isCapturing_ /\ eng.pcmBuffer_ = <<>>)

(***************************************************************************)
(* Claims about the playback path                                          *)
(***************************************************************************)
\* C10: whenever the playback callback runs while playing with fewer unread
\* samples than the burst asks for, and no packet was decoded (none dequeued,
\* or the dequeued one failed to decode), loss concealment is invoked.
C10_ConcealsLoss ==
    (last.op = "playbackAudioReady" /\ last.playing /\ last.needsMore /\ ~last.decodeOk)
        => last.plc

\* C25: whenever the playback callback runs while playing and the output
\* queue holds fewer unread samples than the burst asks for (an empty queue
\* included), the callback attempts a dequeue from the jitter buffer.
C25_LowQueueTriesDequeue ==
    (last.op = "playbackAudioReady" /\ last.playing /\ last.needsMore /\ prev.pb # <<>>)
        => last.tried

\* C26: with a playback callback between any two arrivals of a playing
\* session, no enqueue of the receive loop finds a jitter buffer full: neither
\* the packetizer's own buffer nor the playback buffer the receive callback
\* feeds ever evicts a packet.
C26_NoEviction ==
    (last.op = "receiveLoopPass" /\ last.enqueued) =>
        /\ ~JbIsFull(prev.jb)
        /\ (last.called /\ prev.g_audioEngine /\ prev.eng.isPlaying_ /\ prev.pb # <<>>)
               => ~JbIsFull(prev.pb[1])

\* C27: when startPlayback turns the playing flag from false to true, the
\* playback jitter buffer holds no packet and the output queue is empty with
\* its read position at 0: nothing stored before the start can be played.
C27_NoStaleAudioAtStart ==
    (last.op = "nativeStartPlayback" /\ g_audioEngine
     /\ ~prev.eng.isPlaying_ /\ eng.isPlaying_) =>
        /\ pbJitterBuffer_ # <<>> =>
               (pbJitterBuffer_[1].isEmpty_ /\ Drain(pbJitterBuffer_[1]) = <<>>)
        /\ eng.outputBuffer_ = <<>>
        /\ eng.outputBufferPos_ = 0

\* C27 witness: a start that found packets waiting in the playback jitter
\* buffer and turned the flag to true.
C27_Witness ==
    /\ last.op = "nativeStartPlayback" /\ g_audioEngine
    /\ ~prev.eng.isPlaying_ /\ eng.isPlaying_
    /\ prev.pb # <<>>
    /\ ~prev.pb[1].isEmpty_ /\ Drain(prev.pb[1]) # <<>>

(***************************************************************************)
(* Claims about the threads of the engine                                  *)
(***************************************************************************)
\* C22: a capture callback invoked while isCapturing_ is false changes
\* nothing in the engine (accumulator, encoder, statistics; no encode is
\* begun) and nothing in the packetizer (sequence number, timestamp; no
\* packet is built or sent).
C22_NotCapturingDoesNothing ==
    [][(micNext' # micNext /\ ~eng.isCapturing_) => (eng' = eng /\ rtp' = rtp)]_vars

\* C22 witness: the capture stream has called back while the stream was
\* started and the flag was false, and the callback has returned.
C22_Witness ==
    /\ last.op = "CaptureCallback::onAudioReady" /\ ~last.capturing
    /\ eng.captureStream_ = "started"
    /\ ~eng.isCapturing_
    /\ ~Running(eng, "capture")

\* Whether the host, in function fn, still has one of the named steps ahead.
StepsLeft(e, fn, names) ==
    /\ e.hostAt_.fn = fn
    /\ \E i \in e.hostAt_.pc..Len(Program(fn)) : Program(fn)[i].on \in names

\* C24: while the capturing flag is true or a capture callback that saw it
\* true is in progress, startCapture has neither its encoder reset nor its
\* accumulator clear still ahead; likewise startPlayback has neither its
\* decoder reset nor its jitter-buffer reset ahead while the playing flag is
\* true or a playback callback that saw it true is in progress.
C24_ResetBeforeFlag ==
    /\ (eng.isCapturing_ \/ Running(eng, "capture"))
           => ~StepsLeft(eng, "startCapture", {"opusEncoder_->reset", "pcmBuffer_.clear"})
    /\ (eng.isPlaying_ \/ Running(eng, "playback"))
           => ~StepsLeft(eng, "startPlayback", {"opusDecoder_->reset", "jitterBuffer_->reset"})

\* C24 witness: startCapture has stored the flag and still holds the codec
\* lock while a capture callback that saw the flag true is in progress.
C24_Witness ==
    /\ eng.hostAt_.fn = "startCapture"
    /\ eng.isCapturing_
    /\ Running(eng, "capture")

\* C28: no thread holds pcmBufferMutex_ and codecMutex_ at the same time.
C28_AccumulatorAndCodecLocksApart ==
    \A t \in Threads : ~({"pcmBufferMutex_", "codecMutex_"} \subseteq Held(eng, t))

\* The locks C29 names: accumulator, codec, jitter buffer, statistics,
\* unicast peer set.
NamedLocks ==
    {"pcmBufferMutex_", "codecMutex_", "jitterBuffer_->mutex_", "statsMutex_", "unicastMutex_"}

\* C29: a thread about to make a socket call or a device stream call holds
\* none of the named locks.
C29_NoLockAcrossIo ==
    \A t \in Threads :
        (Running(eng, t) /\ StepAt(eng, t).do = "io") => Held(eng, t) \cap NamedLocks = {}

\* C30: no thread holds codecMutex_ and the jitter buffer's mutex_ at the
\* same time.
C30_CodecAndJitterLocksApart ==
    \A t \in Threads : ~({"codecMutex_", "jitterBuffer_->mutex_"} \subseteq Held(eng, t))

(***************************************************************************)
(* Claims about the ring of RtpJitterBuffer                                *)
(***************************************************************************)
\* The slot indices from head up to but not including tail, cyclically.
LiveSlots(jb) ==
    {(jb.head_ + k) % BUFFER_SIZE :
        k \in 0..(((jb.tail_ + BUFFER_SIZE - jb.head_) % BUFFER_SIZE) - 1)}

\* C40: after any sequence of enqueue, dequeue and reset, head and tail lie
\* in [0, BUFFER_SIZE), every slot from head up to but not including tail is
\* valid, a set empty flag implies head = tail, and getCurrentSize is the
\* number of accepted packets not yet dequeued or evicted.
C40_RingInvariant ==
    /\ jitterBuffer_.head_ \in 0..(BUFFER_SIZE - 1)
    /\ jitterBuffer_.tail_ \in 0..(BUFFER_SIZE - 1)
    /\ \A i \in LiveSlots(jitterBuffer_) : jitterBuffer_.buffer_[i].valid
    /\ jitterBuffer_.isEmpty_ => jitterBuffer_.head_ = jitterBuffer_.tail_
    /\ getCurrentSize(jitterBuffer_) = Len(jbPending)

\* C40 witness: a dequeue from a ring that has evicted and whose live slots
\* wrap around the end of the array.
C40_Witness ==
    /\ jbLast.op = "dequeue" /\ jbLast.ok
    /\ jbPrev.packetsLost_ > 0
    /\ jitterBuffer_.head_ > jitterBuffer_.tail_
    /\ getCurrentSize(jitterBuffer_) > 1

\* C38: when the datagrams that have arrived since construction carry every
\* sequence number of a contiguous range exactly once, in order or with
\* adjacent pairs swapped, and none was evicted, the loss counter is 0 after
\* the last of them is enqueued.
C38_ReorderingIsNotLoss ==
    (/\ jbLast.op = "enqueue"
     /\ jbResets = 0
     /\ jbArrivals < BUFFER_SIZE
     /\ \/ pattern = "inorder"
        \/ pattern = "reordered" /\ jbArrivals % 2 = 0)
        => jitterBuffer_.packetsLost_ = 0

\* C39: with capture bursts of at most one codec frame, the accumulator
\* holds fewer samples than one codec frame after every capture callback (and
\* in every other state the handlers reach).
C39_AccumulatorBelowOneFrame ==
    /\ Len(eng.pcmBuffer_) < OPUS_FRAME_SIZE
    /\ last.op = "captureAudioReady" =>
           (last.numFrames <= OPUS_FRAME_SIZE /\ Len(eng.pcmBuffer_) < OPUS_FRAME_SIZE)

\* C39 witness: a burst of a whole codec frame arrived on a partly filled
\* accumulator, a frame was cut, and as many samples as before stay buffered.
C39_Witness ==
    /\ last.op = "captureAudioReady"
    /\ last.numFrames = OPUS_FRAME_SIZE
    /\ last.needEncode
    /\ prev.eng.pcmBuffer_ # <<>>
    /\ Len(eng.pcmBuffer_) = Len(prev.eng.pcmBuffer_)

\* C35: every playback callback writes exactly the requested number of
\* samples: zeros only when not playing; when playing, the unread samples of
\* the output queue (with what this callback decoded appended) in queue
\* order, followed by zeros for the shortfall.  The read position never
\* exceeds the queue's length.
C35_OutputIsQueueThenSilence ==
    /\ eng.outputBufferPos_ <= Len(eng.outputBuffer_)
    /\ last.op = "playbackAudioReady" =>
           LET queue == prev.eng.outputBuffer_ \o last.added
               unread == SubSeq(queue, prev.eng.outputBufferPos_ + 1, Len(queue))
               n == Min(last.numFrames, Len(unread))
           IN  /\ Len(last.output) = last.numFrames
               /\ ~last.playing => \A i \in 1..last.numFrames : last.output[i] = 0
               /\ last.playing =>
                      /\ SubSeq(last.output, 1, n) = SubSeq(unread, 1, n)
                      /\ \A i \in (n + 1)..last.numFrames : last.output[i] = 0

\* C35 witness: a callback that ran while playing, with a packet waiting in
\* the jitter buffer, and filled the burst.
C35_Witness ==
    /\ last.op = "playbackAudioReady" /\ last.playing
    /\ prev.pb # <<>>
    /\ ~prev.pb[1].isEmpty_
    /\ Len(last.output) = kFramesPerBurst

(***************************************************************************)
(* Claims about the bounded wait of stopReceiveLoop                        *)
(***************************************************************************)
\* C34: stopReceiveLoop returns to its caller after the grace period even
\* if the receive thread never leaves its loop: a caller that is inside
\* stopReceiveLoop is eventually outside it, whatever the thread does.
C34_StopReturnsAfterGrace == (rtp.stopAt_ # "none") ~> (rtp.stopAt_ = "none")

(***************************************************************************)
(* Claims about control-plane calls and the callbacks' locks               *)
(***************************************************************************)
\* C32: a start or stop of capture or playback never waits for a lock that
\* a capture or playback callback holds: whenever the host stands at a lock
\* step of one of these calls, no callback thread holds that mutex.
C32_ControlNeverWaitsOnCallback ==
    (/\ eng.hostAt_.fn \in {"startCapture", "stopCapture", "startPlayback", "stopPlayback"}
     /\ StepAt(eng, "host").do = "lock")
        => eng.locks_[StepAt(eng, "host").on] \notin {"capture", "playback"}

(***************************************************************************)
(* Claims about the creation of the playback jitter buffer                 *)
(***************************************************************************)
\* Thread u has read jitterBuffer_ and is creating the buffer or inside a
\* call on it (enqueue, dequeue or reset with their lock and unlock).
UsesJitterBuffer(e, u) ==
    /\ Running(e, u)
    /\ StepAt(e, u).on \in {"std::make_unique<RtpJitterBuffer>", "jitterBuffer_->mutex_",
                            "jitterBuffer_->enqueue", "jitterBuffer_->dequeue",
                            "jitterBuffer_->reset"}

\* C37: the playback jitter buffer is created at most once and never
\* created or replaced while another thread is using it: whenever a thread
\* is about to run make_unique in enqueueAudio, jitterBuffer_ is still null
\* (so no buffer, and no packet in it, is replaced) and no other thread is
\* creating the buffer or inside a call on it.
C37_JitterBufferCreatedOnce ==
    \A t \in Threads :
        (Running(eng, t) /\ StepAt(eng, t) = Call("std::make_unique<RtpJitterBuffer>"))
            => /\ pbJitterBuffer_ = <<>>
               /\ \A u \in Threads \ {t} : ~UsesJitterBuffer(eng, u)

(***************************************************************************)
(* Claims about the receive callback and the engine's lifetime             *)
(***************************************************************************)
\* C36: the receive thread's callback never accesses the audio engine after
\* the engine has been destroyed: once g_audioEngine has been reset, the
\* receive thread is not inside enqueueReceivedAudio.
C36_NoCallbackAfterDestroy == ~g_audioEngine => ~Running(eng, "receive")

(***************************************************************************)
(* Claims about the codec lock                                             *)
(***************************************************************************)
\* The operations on the codec instances that run under codecMutex_.
CodecOperations ==
    {"OpusCodecFactory::createEncoder", "OpusCodecFactory::createDecoder",
     "opusEncoder_->reset", "opusDecoder_->reset",
     "opusEncoder_->encode", "opusDecoder_->decode"}

AtCodecOperation(e, t, ops) == Running(e, t) /\ StepAt(e, t).on \in ops

HeldWithGlobal(e, t) ==
    Held(e, t) \cup (IF t = "host" /\ Running(e, "host") THEN {"g_engineMutex"} ELSE {})

\* An order of the mutexes: the engine-global one, then the playback
\* buffer's, then the codec's, then the four that are taken last.
LockRank(l) ==
    CASE l = "g_engineMutex" -> 0
      [] l = "bufferMutex_" -> 1
      [] l = "codecMutex_" -> 2
      [] OTHER -> 3

\* C33: no interleaving of the callbacks, the receive thread and the native
\* calls deadlocks.  A thread that is about to take a mutex holds only
\* mutexes that come earlier in one fixed order, so the acquisition orders
\* form no cycle; and whenever some thread is inside a function, some thread
\* is not waiting for a mutex.
C33_NoDeadlock ==
    /\ \A t \in Threads :
           (Running(eng, t) /\ StepAt(eng, t).do = "lock")
               => \A h \in HeldWithGlobal(eng, t) : LockRank(h) < LockRank(StepAt(eng, t).on)
    /\ (\E t \in Threads : Running(eng, t)) => (\E t \in Threads : CanStep(eng, t))

\* C33 witness: the host waits for a mutex inside a native call while the
\* capture callback holds the codec lock and the statistics lock.
C33_Witness ==
    /\ Running(eng, "host")
    /\ ~CanStep(eng, "host")
    /\ Held(eng, "capture") = {"codecMutex_", "statsMutex_"}
====
